---- MODULE Spec2Model ----
(***************************************************************************)
(* State-machine model of the pull-up repetition counter                   *)
(* (backend/models/pull_up_counter.py, class FixedPullUpCounter).          *)
(*                                                                         *)
(* Units.  Confidences are hundredths (0.3 -> 30).  Times are whole        *)
(* seconds.  The two confirmation counters move in steps of 0.5 in the     *)
(* code; the model stores them in half-frames (1 frame = 2, 0.5 frame = 1).*)
(* A Python number is a record [val, num, den, complex].  Its (real) value *)
(* is val + num/den: val is the whole part (the floor), num/den the        *)
(* fraction in lowest terms, den a power of 2 and 0 <= num < den, which    *)
(* true division by 2 needs (3.0 / 2 is val 1, num 1, den 2; -3.0 / 2 is   *)
(* val -2, num 1, den 2); a whole number has num 0 and den 1.  complex     *)
(* says whether the Python type is complex, the one numeric type whose     *)
(* arithmetic works while its ordering comparison raises TypeError.        *)
(***************************************************************************)
EXTENDS Integers, Sequences, FiniteSets, TLC

VARIABLES
    count,                    \* self.count
    position,                 \* self.position
    position_history,         \* self.position_history, deque(maxlen=30)
    direction_history,        \* self.direction_history, deque(maxlen=10)
    last_rep_time,            \* self.last_rep_time
    current_direction,        \* self.current_direction
    consecutive_up_frames,    \* self.consecutive_up_frames, in half-frames
    consecutive_down_frames,  \* self.consecutive_down_frames, in half-frames
    frame_count,              \* self.frame_count
    now,                      \* the clock read by time.time()
    op,                       \* the last call made on the counter
    keypoints,                \* the keypoints of the last frame
    result,                   \* the value the last call returned
    prev,                     \* the counter's fields before the last call
    instances,                \* the other FixedPullUpCounter objects, by identity
    requests                  \* the HTTP requests in flight

vars == <<count, position, position_history, direction_history, last_rep_time,
          current_direction, consecutive_up_frames, consecutive_down_frames,
          frame_count, now, op, keypoints, result, prev, instances, requests>>

----------------------------------------------------------------------------
(* Configuration (config.py) and container capacities.                     *)

min_confidence == 30

rep_cooldown == 2

min_consecutive_frames == 3

movement_threshold == 8

min_movement_range == 30

position_history_maxlen == 30

direction_history_maxlen == 10

----------------------------------------------------------------------------
(* Python values.                                                          *)

\* the whole number v as a Python float, and as a Python complex
Float(v) == [val |-> v, num |-> 0, den |-> 1, complex |-> FALSE]

Complex(v) == [val |-> v, num |-> 0, den |-> 1, complex |-> TRUE]

\* the number n/d, d a power of 2, in lowest terms
RECURSIVE Number(_, _, _)
Number(n, d, c) ==
    IF d > 1 /\ n % 2 = 0 THEN Number(n \div 2, d \div 2, c)
    ELSE [val |-> n \div d, num |-> n % d, den |-> d, complex |-> c]

\* the number a counted in units of 1/d, d a multiple of a.den
Units(a, d) == (a.val * a.den + a.num) * (d \div a.den)

\* a + b, a - b and a / 2 (true division) on Python numbers: the result is
\* complex as soon as one operand is
PyAdd(a, b) ==
    LET d == IF a.den >= b.den THEN a.den ELSE b.den
    IN  Number(Units(a, d) + Units(b, d), d, a.complex \/ b.complex)

PySub(a, b) ==
    LET d == IF a.den >= b.den THEN a.den ELSE b.den
    IN  Number(Units(a, d) - Units(b, d), d, a.complex \/ b.complex)

PyHalf(a) == Number(Units(a, a.den), 2 * a.den, a.complex)

\* abs(a); the absolute value of a complex number is a float
PyAbs(a) ==
    IF a.val < 0 THEN Number(-Units(a, a.den), a.den, FALSE)
    ELSE [a EXCEPT !.complex = FALSE]

\* a > k and a < k for a real number a and a whole number k
GreaterThan(a, k) == a.val > k \/ (a.val = k /\ a.num > 0)

LessThan(a, k) == a.val < k

Abs(n) == IF n < 0 THEN -n ELSE n

Max(a, b) == IF a >= b THEN a ELSE b

Min4(a, b, c, d) ==
    LET m2(x, y) == IF y < x THEN y ELSE x
    IN  m2(m2(m2(a, b), c), d)

\* DequeAppend on a deque without maxlen
DequeAppendUnbounded(s, e, n) == Append(s, e)

\* deque(maxlen=n).append(e): the oldest element is evicted when full.
DequeAppend(s, e, n) == IF Len(s) < n THEN Append(s, e) ELSE Append(Tail(s), e)

\* list(d)[-k:]
LastK(s, k) == IF Len(s) <= k THEN s ELSE SubSeq(s, Len(s) - k + 1, Len(s))

----------------------------------------------------------------------------
(* The counter object as a record, so that methods are operators from      *)
(* (self, arguments) to the new self and the returned value.               *)

Self == [count |-> count,
         position |-> position,
         position_history |-> position_history,
         direction_history |-> direction_history,
         last_rep_time |-> last_rep_time,
         current_direction |-> current_direction,
         consecutive_up_frames |-> consecutive_up_frames,
         consecutive_down_frames |-> consecutive_down_frames,
         frame_count |-> frame_count]

\* FixedPullUpCounter.__init__
NewCounter == [count |-> 0,
               position |-> "neutral",
               position_history |-> <<>>,
               direction_history |-> <<>>,
               last_rep_time |-> 0,
               current_direction |-> "stable",
               consecutive_up_frames |-> 0,
               consecutive_down_frames |-> 0,
               frame_count |-> 0]

----------------------------------------------------------------------------
(* detect_direction_change                                                 *)

\* RawDirection with the sign of the movement read the wrong way round
RawDirectionInverted(movement) ==
    IF GreaterThan(movement, movement_threshold) THEN "down"
    ELSE IF LessThan(movement, -movement_threshold) THEN "up"
    ELSE "stable"

\* RawDirection with >= and <= for > and <
RawDirectionInclusive(movement) ==
    IF ~LessThan(movement, movement_threshold) THEN "up"
    ELSE IF ~GreaterThan(movement, -movement_threshold) THEN "down"
    ELSE "stable"

\* lines 40-44: raw direction of the 5-sample net movement
RawDirection(movement) ==
    IF GreaterThan(movement, movement_threshold) THEN "up"
    ELSE IF LessThan(movement, -movement_threshold) THEN "down"
    ELSE "stable"

\* Decay dropping a positive counter to 0 at once
DecayReset(c) == 0

\* Decay that never lowers a counter
DecayNever(c) == c

\* lines 56, 58: max(0, c - 0.5) on a positive counter, in half-frames
Decay(c) == IF c > 0 THEN Max(0, c - 1) ELSE c

\* lines 47-58: the two counters after a frame of raw direction d
UpdateUp(d, up) ==
    IF d = "up" THEN up + 2
    ELSE IF d = "down" THEN 0
    ELSE Decay(up)

\* UpdateDown leaving the down counter alone on a raw 'up' frame
UpdateDownKeep(d, down) ==
    IF d = "up" THEN down
    ELSE IF d = "down" THEN down + 2
    ELSE Decay(down)

UpdateDown(d, down) ==
    IF d = "up" THEN 0
    ELSE IF d = "down" THEN down + 2
    ELSE Decay(down)

\* ConfirmedDirection confirming one frame early
ConfirmedDirectionEarly(cur, up, down) ==
    IF up >= 2 * (min_consecutive_frames - 1) THEN "up"
    ELSE IF down >= 2 * (min_consecutive_frames - 1) THEN "down"
    ELSE IF up = 0 /\ down = 0 THEN "stable"
    ELSE cur

\* ConfirmedDirection confirming at 2.5 frames
ConfirmedDirectionRounded(cur, up, down) ==
    IF up >= 2 * min_consecutive_frames - 1 THEN "up"
    ELSE IF down >= 2 * min_consecutive_frames - 1 THEN "down"
    ELSE IF up = 0 /\ down = 0 THEN "stable"
    ELSE cur

\* lines 61-67: the confirmed direction from the updated counters
ConfirmedDirection(cur, up, down) ==
    IF up >= 2 * min_consecutive_frames THEN "up"
    ELSE IF down >= 2 * min_consecutive_frames THEN "down"
    ELSE IF up = 0 /\ down = 0 THEN "stable"
    ELSE cur

\* LogTransition logging the direction that was left
LogTransitionStale(dh, cur, confirmed_direction, t, current_diff) ==
    IF confirmed_direction # cur
    THEN DequeAppend(dh, <<cur, t, current_diff>>, direction_history_maxlen)
    ELSE dh

\* LogTransition logging the confirmed direction of every frame
LogTransitionAlways(dh, cur, confirmed_direction, t, current_diff) ==
    DequeAppend(dh, <<confirmed_direction, t, current_diff>>, direction_history_maxlen)

\* lines 70-71: a change of the confirmed direction is logged with the time
\* and the differential of the frame
LogTransition(dh, cur, confirmed_direction, t, current_diff) ==
    IF confirmed_direction # cur
    THEN DequeAppend(dh, <<confirmed_direction, t, current_diff>>, direction_history_maxlen)
    ELSE dh

\* lines 28-78.  raised says the call left through an exception: the
\* comparison of a complex movement with the threshold (line 41) raises
\* TypeError, after the sample was appended at line 30.
detect_direction_change(self, current_diff, t) ==
    LET h  == DequeAppend(self.position_history, current_diff, position_history_maxlen)
        s1 == [self EXCEPT !.position_history = h]
    IN  IF Len(h) < 5
        THEN [self |-> s1, raised |-> FALSE, direction |-> "starting", magnitude |-> 0]
        ELSE
        LET recent   == LastK(h, 5)
            movement == PySub(recent[5], recent[1])
        IN  IF movement.complex
            THEN [self |-> s1, raised |-> TRUE, direction |-> "starting", magnitude |-> 0]
            ELSE
            LET new_direction == RawDirection(movement)
                up   == UpdateUp(new_direction, self.consecutive_up_frames)
                down == UpdateDown(new_direction, self.consecutive_down_frames)
                confirmed_direction == ConfirmedDirection(self.current_direction, up, down)
                s2 == [s1 EXCEPT
                         !.consecutive_up_frames = up,
                         !.consecutive_down_frames = down,
                         !.direction_history =
                             LogTransition(@, self.current_direction,
                                           confirmed_direction, t, current_diff),
                         !.current_direction = confirmed_direction]
            IN  [self |-> s2, raised |-> FALSE,
                 direction |-> confirmed_direction, magnitude |-> PyAbs(movement)]

----------------------------------------------------------------------------
(* analyze_pose                                                            *)

\* CooldownElapsed with >= for >
CooldownElapsedInclusive(t, last) == t - last >= rep_cooldown

\* line 107
CooldownElapsed(t, last) == t - last > rep_cooldown

\* DownUpPattern looking for a 'down' anywhere before the final 'up'
DownUpPatternAnywhere(dh) ==
    /\ Len(dh) >= 2
    /\ dh[Len(dh)][1] = "up"
    /\ \E i \in 1..(Len(dh) - 1) : dh[i][1] = "down"

\* lines 109-116: the last two direction changes are DOWN then UP
DownUpPattern(dh) ==
    /\ Len(dh) >= 2
    /\ LastK(dh, 2)[1][1] = "down"
    /\ LastK(dh, 2)[2][1] = "up"

\* lines 119-121
MovementRange(dh) == PyAbs(PySub(LastK(dh, 2)[2][3], LastK(dh, 2)[1][3]))

\* SignificantMovement with >= for >
SignificantMovementInclusive(range) == ~LessThan(range, min_movement_range)

\* line 124
SignificantMovement(range) == GreaterThan(range, min_movement_range)

\* CountRep discarding a pair that is logged while the cooldown runs
CountRepDiscard(self, t) ==
    IF /\ Len(self.direction_history) >= 2
       /\ self.direction_history[Len(self.direction_history) - 1][1] = "down"
       /\ self.direction_history[Len(self.direction_history)][1] = "up"
    THEN IF t - self.last_rep_time > rep_cooldown
         THEN [self EXCEPT !.count = @ + 1,
                           !.last_rep_time = t,
                           !.direction_history = <<>>]
         ELSE [self EXCEPT !.direction_history = <<>>]
    ELSE self

\* CountRep leaving the log as it is
CountRepKeepLog(self, t) ==
    IF /\ t - self.last_rep_time > rep_cooldown
       /\ Len(self.direction_history) >= 2
       /\ self.direction_history[Len(self.direction_history) - 1][1] = "down"
       /\ self.direction_history[Len(self.direction_history)][1] = "up"
       /\ GreaterThan(PyAbs(PySub(self.direction_history[Len(self.direction_history)][3],
                                  self.direction_history[Len(self.direction_history) - 1][3])),
                      min_movement_range)
    THEN [self EXCEPT !.count = @ + 1, !.last_rep_time = t]
    ELSE self

\* CountRep counting each of the two transitions of the pattern
CountRepPerEntry(self, t) ==
    IF /\ t - self.last_rep_time > rep_cooldown
       /\ Len(self.direction_history) >= 2
       /\ self.direction_history[Len(self.direction_history) - 1][1] = "down"
       /\ self.direction_history[Len(self.direction_history)][1] = "up"
    THEN [self EXCEPT !.count = @ + 2,
                      !.last_rep_time = t,
                      !.direction_history = <<>>]
    ELSE self

\* lines 106-134: rep counting on the state left by the classification
CountRep(self, t) ==
    IF /\ CooldownElapsed(t, self.last_rep_time)
       /\ DownUpPattern(self.direction_history)
       /\ SignificantMovement(MovementRange(self.direction_history))
    THEN [self EXCEPT !.count = @ + 1,
                      !.last_rep_time = t,
                      !.direction_history = <<>>]
    ELSE self

\* DisplayPosition passing on any direction that is not 'up' or 'down'
DisplayPositionVerbatim(direction) ==
    IF direction = "up" THEN "pulling_up"
    ELSE IF direction = "down" THEN "lowering_down"
    ELSE direction

\* lines 137-142
DisplayPosition(direction) ==
    IF direction = "up" THEN "pulling_up"
    ELSE IF direction = "down" THEN "lowering_down"
    ELSE "stable"

\* NoPerson without the test for an empty array
NoPersonNoneOnly(kp) == kp.none

\* line 82: keypoints is None or len(keypoints) == 0
NoPerson(kp) == kp.none \/ Len(kp.pts) = 0

\* lines 87-93: keypoints[5], [6], [9], [10] and their [1], [2] exist
\* (Python indexes from 0); otherwise IndexError is raised.
Extractable(kp) ==
    /\ Len(kp.pts) >= 11
    /\ \A i \in {6, 7, 10, 11} : Len(kp.pts[i]) >= 3

\* MinConfidence over the two shoulders only
MinConfidenceShoulders(kp) == Min4(kp.pts[6][3], kp.pts[7][3], kp.pts[6][3], kp.pts[7][3])

\* line 93
MinConfidence(kp) == Min4(kp.pts[6][3], kp.pts[7][3], kp.pts[10][3], kp.pts[11][3])

\* LowConfidence rejecting nothing
LowConfidenceNever(kp) == MinConfidence(kp) < 0

\* line 94
LowConfidence(kp) == MinConfidence(kp) < min_confidence

\* lines 98-100
WristShoulderDiff(kp) ==
    LET shoulder_y == PyHalf(PyAdd(kp.pts[6][2], kp.pts[7][2]))
        wrist_y    == PyHalf(PyAdd(kp.pts[10][2], kp.pts[11][2]))
    IN  PySub(wrist_y, shoulder_y)

\* analyze_pose storing the label of a rejected or failed frame in position
analyze_pose_storing_label(self, kp, t) ==
    IF NoPerson(kp)
    THEN [self |-> [self EXCEPT !.position = "no_person"],
          ret |-> <<self.count, "no_person">>]
    ELSE IF ~Extractable(kp)
    THEN [self |-> [self EXCEPT !.position = "error"],
          ret |-> <<self.count, "error">>]
    ELSE IF LowConfidence(kp)
    THEN [self |-> [self EXCEPT !.position = "low_confidence"],
          ret |-> <<self.count, "low_confidence">>]
    ELSE
    LET d == detect_direction_change(self, WristShoulderDiff(kp), t)
    IN  IF d.raised
        THEN [self |-> [d.self EXCEPT !.position = "error"],
              ret |-> <<d.self.count, "error">>]
        ELSE
        LET s3 == CountRep(d.self, t)
            s4 == [s3 EXCEPT !.position = DisplayPosition(d.direction)]
        IN  [self |-> s4, ret |-> <<s4.count, s4.position>>]

\* lines 80-148: the new self and the returned (count, label).  An exception
\* raised inside the try block is caught at line 146: the call returns
\* (count, "error") and self keeps whatever was assigned before the raise.
analyze_pose(self, kp, t) ==
    IF NoPerson(kp)
    THEN [self |-> self, ret |-> <<self.count, "no_person">>]
    ELSE IF ~Extractable(kp)
    THEN [self |-> self, ret |-> <<self.count, "error">>]
    ELSE IF LowConfidence(kp)
    THEN [self |-> self, ret |-> <<self.count, "low_confidence">>]
    ELSE
    LET d == detect_direction_change(self, WristShoulderDiff(kp), t)
    IN  IF d.raised
        THEN [self |-> d.self, ret |-> <<d.self.count, "error">>]
        ELSE
        LET s3 == CountRep(d.self, t)
            s4 == [s3 EXCEPT !.position = DisplayPosition(d.direction)]
        IN  [self |-> s4, ret |-> <<s4.count, s4.position>>]

\* reset forgetting the cooldown timer
resetKeepsCooldown(self) == [NewCounter EXCEPT !.last_rep_time = self.last_rep_time]

\* reset leaving the frame counter of the HTTP handler as it is
resetKeepsFrameCount(self) == [NewCounter EXCEPT !.frame_count = self.frame_count]

\* lines 150-160: the nine assignments, made on the object itself
reset(self) ==
    [self EXCEPT !.count = 0,
                 !.position = "neutral",
                 !.position_history = <<>>,
                 !.direction_history = <<>>,
                 !.last_rep_time = 0,
                 !.current_direction = "stable",
                 !.consecutive_up_frames = 0,
                 !.consecutive_down_frames = 0,
                 !.frame_count = 0]

----------------------------------------------------------------------------
(* Inputs.                                                                 *)

\* One keypoint row (x, y, confidence).
Point(y, conf) == <<Float(0), y, conf>>

\* A 17-row pose: rows 5, 6 (shoulders) and 9, 10 (wrists), counted from 0,
\* carry the given y values and confidences; the other rows do not matter.
Pose(ls, rs, lw, rw) ==
    [none |-> FALSE,
     pts  |-> [i \in 1..17 |->
                 IF i = 6 THEN ls ELSE IF i = 7 THEN rs
                 ELSE IF i = 10 THEN lw ELSE IF i = 11 THEN rw
                 ELSE Point(Float(0), 100)]]

\* keypoints=None (for the HTTP handler and the script: no detection, so
\* that detect_pose returns None) and an array of 0 rows
NoneKeypoints == [none |-> TRUE, pts |-> <<>>]

EmptyKeypoints == [none |-> FALSE, pts |-> <<>>]

\* a pose array cut after row 4: keypoints[5] raises IndexError
ShortKeypoints == [none |-> FALSE, pts |-> [i \in 1..5 |-> Point(Float(0), 100)]]

\* shoulders at y = 100, wrists at y = 100 + d, all four confidences conf
GoodPose(d, conf) ==
    Pose(Point(Float(100), conf), Point(Float(100), conf),
         Point(Float(100 + d), conf), Point(Float(100 + d), conf))

\* the same pose with the wrists' y given as Python complex numbers
ComplexPose(d) ==
    Pose(Point(Float(100), 100), Point(Float(100), 100),
         Point(Complex(100 + d), 100), Point(Complex(100 + d), 100))

\* shoulders at y = 100, wrists at y = 100 + d and 100 + d + 1: the mean of
\* the wrists, and the differential d + 0.5, are not whole
TiltedPose(d, conf) ==
    Pose(Point(Float(100), conf), Point(Float(100), conf),
         Point(Float(100 + d), conf), Point(Float(100 + d + 1), conf))

\* the pose of differential d with the confidence of row i lowered to conf
LowPose(d, i, conf) ==
    [GoodPose(d, 100) EXCEPT !.pts[i][3] = conf]

----------------------------------------------------------------------------------------------------------------------------------------
(* analyze_frame (main.py), for the one session "default": the handler     *)
(* counts the frame, then passes the detected pose to analyze_pose and     *)
(* reads the four keypoints again for its debug output, or answers         *)
(* no_person itself when detect_pose found nobody (None).  Any exception   *)
(* is answered with HTTPException 500 (lines 112-114): the request ends    *)
(* without rep_count and position.                                         *)

\* lines 68-73: keypoints[5], [6], [9], [10] and their [1] exist (Python
\* indexes from 0); otherwise IndexError is raised, outside the try block
\* of analyze_pose
Indexable(kp) ==
    /\ Len(kp.pts) >= 11
    /\ \A i \in {6, 7, 10, 11} : Len(kp.pts[i]) >= 2

\* lines 65-85 and 112-114, a being what analyze_pose left and returned
Answered(kp, a) ==
    IF Indexable(kp)
    THEN [self |-> a.self, ret |-> a.ret, raised |-> FALSE]
    ELSE [self |-> a.self, ret |-> <<>>, raised |-> TRUE]

\* lines 58-114: the new counter, the returned (rep_count, position) and
\* whether the request ended with HTTPException 500 instead
analyze_frame(self, kp, t) ==
    LET counter == [self EXCEPT !.frame_count = @ + 1]
    IN  IF ~kp.none
        THEN Answered(kp, analyze_pose(counter, kp, t))
        ELSE [self |-> counter, ret |-> <<counter.count, "no_person">>, raised |-> FALSE]

----------------------------------------------------------------------------
(* Operations.                                                             *)

Install(s) ==
    /\ count' = s.count
    /\ position' = s.position
    /\ position_history' = s.position_history
    /\ direction_history' = s.direction_history
    /\ last_rep_time' = s.last_rep_time
    /\ current_direction' = s.current_direction
    /\ consecutive_up_frames' = s.consecutive_up_frames
    /\ consecutive_down_frames' = s.consecutive_down_frames
    /\ frame_count' = s.frame_count

\* counter.analyze_pose(kp), the clock reading now
AnalyzePose(kp) ==
    LET r == analyze_pose(Self, kp, now)
    IN  /\ Install(r.self)
        /\ op' = "analyze_pose"
        /\ keypoints' = kp
        /\ result' = r.ret
        /\ prev' = Self
        /\ now' = now
        /\ UNCHANGED <<instances, requests>>

\* POST /analyze_frame with an image in which detect_pose finds kp
AnalyzeFrame(kp) ==
    LET r == analyze_frame(Self, kp, now)
    IN  /\ Install(r.self)
        /\ op' = "analyze_frame"
        /\ keypoints' = kp
        /\ result' = r.ret
        /\ prev' = Self
        /\ now' = now
        /\ UNCHANGED <<instances, requests>>

\* counter.reset()
Reset ==
    /\ Install(reset(Self))
    /\ op' = "reset"
    /\ keypoints' = NoneKeypoints
    /\ result' = <<>>
    /\ prev' = Self
    /\ now' = now
    /\ UNCHANGED <<instances, requests>>

\* time.time() is seconds since 1970: every clock reading exceeds the cooldown
Epoch == rep_cooldown + 1

\* the explored clock readings: long enough to see the cooldown run out
ClockHorizon == Epoch + rep_cooldown + 1

\* the clock advances by one second
Tick ==
    /\ now < ClockHorizon
    /\ now' = now + 1
    /\ UNCHANGED <<count, position, position_history, direction_history,
                   last_rep_time, current_direction, consecutive_up_frames,
                   consecutive_down_frames, frame_count, op, keypoints, result, prev,
                   instances, requests>>

Init ==
    /\ count = NewCounter.count
    /\ position = NewCounter.position
    /\ position_history = NewCounter.position_history
    /\ direction_history = NewCounter.direction_history
    /\ last_rep_time = NewCounter.last_rep_time
    /\ current_direction = NewCounter.current_direction
    /\ consecutive_up_frames = NewCounter.consecutive_up_frames
    /\ consecutive_down_frames = NewCounter.consecutive_down_frames
    /\ frame_count = NewCounter.frame_count
    /\ now = Epoch
    /\ op = "init"
    /\ keypoints = NoneKeypoints
    /\ result = <<>>
    /\ prev = NewCounter
    /\ instances = <<>>
    /\ requests = <<>>

\* number of places where a signal changes value
Switches(h) == Cardinality({i \in 1..(Len(h) - 1) : h[i] # h[i + 1]})

\* the frame's sample keeps the signal within the explored bounds
Admissible(h, kp, maxFrames, maxSwitches) ==
    /\ Len(h) < maxFrames
    /\ Switches(Append(h, WristShoulderDiff(kp))) <= maxSwitches

----------------------------------------------------------------------------
(* Spec: one counter driven by analyze_pose calls of every kind (accepted, *)
(* no person, low confidence, failing) and by reset, in any order.  The    *)
(* accepted samples form piecewise-constant signals over Differentials     *)
(* with at most MaxSwitches changes of value and at most MaxFrames samples *)
(* since the last reset.  Within these bounds at most one repetition fits, *)
(* so the clock is left standing; SpecReplay lets it run.                  *)

MaxFrames == 10

MaxSwitches == 2

Differentials == {0, 30, 40}

AcceptedInputs == {GoodPose(d, 100) : d \in Differentials}

LowConfidenceInputs == {LowPose(40, i, 29) : i \in {6, 7, 10, 11}}

NoPersonInputs == {NoneKeypoints, EmptyKeypoints}

FailingInputs == {ShortKeypoints, ComplexPose(40)}

AcceptedFrame ==
    \E kp \in AcceptedInputs :
        /\ Admissible(position_history, kp, MaxFrames, MaxSwitches)
        /\ AnalyzePose(kp)

LowConfidenceFrame == \E kp \in LowConfidenceInputs : AnalyzePose(kp)

NoPersonFrame == \E kp \in NoPersonInputs : AnalyzePose(kp)

FailingFrame ==
    \E kp \in FailingInputs :
        /\ Extractable(kp) => Admissible(position_history, kp, MaxFrames, MaxSwitches)
        /\ AnalyzePose(kp)

Next == AcceptedFrame \/ LowConfidenceFrame \/ NoPersonFrame \/ FailingFrame \/ Reset

Spec == Init /\ [][Next]_vars

----------------------------------------------------------------------------
(* SpecReplay: accepted frames over two levels while the clock runs, long  *)
(* enough for a second down/up pattern after a counted repetition.         *)

MaxFramesReplay == 17

MaxSwitchesReplay == 4

ReplayInputs == {GoodPose(d, 100) : d \in {0, 40}}

ReplayFrame ==
    \E kp \in ReplayInputs :
        /\ Admissible(position_history, kp, MaxFramesReplay, MaxSwitchesReplay)
        /\ AnalyzePose(kp)

NextReplay == ReplayFrame \/ Tick

SpecReplay == Init /\ [][NextReplay]_vars

----------------------------------------------------------------------------
(* SpecSignal: every signal of up to MaxFramesSignal accepted samples over *)
(* three levels, with no bound on its changes of value.                    *)

MaxFramesSignal == 9

SignalInputs == {GoodPose(d, 100) : d \in {0, 30, 40}}

SignalFrame ==
    \E kp \in SignalInputs :
        /\ Admissible(position_history, kp, MaxFramesSignal, MaxFramesSignal)
        /\ AnalyzePose(kp)

NextSignal == SignalFrame

SpecSignal == Init /\ [][NextSignal]_vars

----------------------------------------------------------------------------
(* SpecScenario: accepted frames over the two levels of Scenario A of the  *)
(* specification, 0 and 20, from a new counter.                            *)

MaxFramesScenario == 11

ScenarioInputs == {GoodPose(d, 100) : d \in {0, 20}}

ScenarioFrame ==
    \E kp \in ScenarioInputs :
        /\ Admissible(position_history, kp, MaxFramesScenario, MaxSwitches)
        /\ AnalyzePose(kp)

NextScenario == ScenarioFrame

SpecScenario == Init /\ [][NextScenario]_vars

----------------------------------------------------------------------------
(* SpecSession: the frames arrive through the HTTP handler, which counts   *)
(* them in frame_count; reset() may be called between any two of them.     *)

MaxFramesSession == 10

MaxRequests == 11

SessionInputs ==
    {GoodPose(d, 100) : d \in {0, 40}}
        \cup {NoneKeypoints, EmptyKeypoints, LowPose(40, 10, 29)}

SessionFrame ==
    \E kp \in SessionInputs :
        /\ frame_count < MaxRequests
        /\ (~NoPerson(kp) /\ ~LowConfidence(kp))
               => Admissible(position_history, kp, MaxFramesSession, MaxSwitches)
        /\ AnalyzeFrame(kp)

NextSession == SessionFrame \/ Reset

SpecSession == Init /\ [][NextSession]_vars

----------------------------------------------------------------------------
(* SpecInstances: several FixedPullUpCounter objects, as the values of     *)
(* workout_sessions would be with more than one session id.  The counter   *)
(* of the variables is object 1, instances holds the others.  Calls of     *)
(* analyze_pose and reset go to any object, in any order; each object      *)
(* receives its own signal over two levels.                                *)

MaxFramesInstances == 7

MaxSwitchesInstances == 1

\* the objects alive, by identity
Heap == <<Self>> \o instances

\* StoreInstance with the two deques held in class attributes, shared by
\* every instance
StoreClassLevel(heap, i, obj) ==
    [j \in DOMAIN heap |->
        IF j = i THEN obj
        ELSE [heap[j] EXCEPT !.position_history = obj.position_history,
                             !.direction_history = obj.direction_history]]

\* __init__ creates every field, the two deques included, as an attribute
\* of the instance: what a method assigns lands in its self alone
StoreInstance(heap, i, obj) == [heap EXCEPT ![i] = obj]

InstallHeap(heap) ==
    /\ Install(heap[1])
    /\ instances' = Tail(heap)

\* Heap[i].analyze_pose(kp)
InstanceAnalyzePose(i, kp) ==
    LET r == analyze_pose(Heap[i], kp, now)
    IN  /\ InstallHeap(StoreInstance(Heap, i, r.self))
        /\ op' = IF i = 1 THEN "analyze_pose" ELSE "other.analyze_pose"
        /\ keypoints' = kp
        /\ result' = r.ret
        /\ prev' = Self
        /\ UNCHANGED <<now, requests>>

\* Heap[i].reset()
InstanceResetCall(i) ==
    /\ InstallHeap(StoreInstance(Heap, i, reset(Heap[i])))
    /\ op' = IF i = 1 THEN "reset" ELSE "other.reset"
    /\ keypoints' = NoneKeypoints
    /\ result' = <<>>
    /\ prev' = Self
    /\ UNCHANGED <<now, requests>>

InstanceInputs == {GoodPose(d, 100) : d \in {0, 40}}

InstanceFrame ==
    \E i \in DOMAIN Heap : \E kp \in InstanceInputs :
        /\ Admissible(Heap[i].position_history, kp, MaxFramesInstances, MaxSwitchesInstances)
        /\ InstanceAnalyzePose(i, kp)

InstanceReset == \E i \in DOMAIN Heap : InstanceResetCall(i)

\* a second counter has been constructed
InitInstances ==
    /\ count = NewCounter.count
    /\ position = NewCounter.position
    /\ position_history = NewCounter.position_history
    /\ direction_history = NewCounter.direction_history
    /\ last_rep_time = NewCounter.last_rep_time
    /\ current_direction = NewCounter.current_direction
    /\ consecutive_up_frames = NewCounter.consecutive_up_frames
    /\ consecutive_down_frames = NewCounter.consecutive_down_frames
    /\ frame_count = NewCounter.frame_count
    /\ now = Epoch
    /\ op = "init"
    /\ keypoints = NoneKeypoints
    /\ result = <<>>
    /\ prev = NewCounter
    /\ instances = <<NewCounter>>
    /\ requests = <<>>

NextInstances == InstanceFrame \/ InstanceReset

SpecInstances == InitInstances /\ [][NextInstances]_vars

----------------------------------------------------------------------------
(* SpecHttp: the two POST handlers of main.py as coroutines on one event   *)
(* loop.  A handler runs without interruption from one await to the next;  *)
(* the loop may resume any suspended request, so requests overtake each    *)
(* other only at an await.  The session's counter is object 1 of Heap; a   *)
(* request's local variable counter holds an object's place in Heap, or 0  *)
(* while unassigned.  A counter replaced by reset_session stays alive, in  *)
(* instances, as long as a request still refers to it.                     *)

MaxInFlight == 2

MaxRequestsHttp == 6

\* the statements of a handler, in order
HandlerSteps(handler) ==
    IF handler = "analyze_frame"
    THEN <<"read", "lookup", "count", "detect", "analyze", "respond">>
    ELSE <<"replace", "respond">>

\* AwaitPoints if pose detection were awaited too
AwaitPointsAfterLookup == {"read", "detect"}

\* the statements that await: contents = await file.read() (line 46) and
\* no other
AwaitPoints == {"read"}

NewRequest(handler, image) ==
    [handler |-> handler, pc |-> 1, image |-> image, counter |-> 0, ret |-> <<>>,
     raised |-> FALSE]

\* request st.r after lines 64-88 left a: its counter, what it will return,
\* and whether an exception was raised
Analyzed(st, c, a) ==
    [st EXCEPT !.heap[c] = a.self, !.reqs[st.r].ret = a.ret, !.reqs[st.r].raised = a.raised]

\* one statement of request st.r
HandlerStep(st, label) ==
    LET q == st.reqs[st.r]
        c == q.counter
    IN  IF label = "lookup"
        \* lines 54-58
        THEN [st EXCEPT !.reqs[st.r].counter = 1]
        ELSE IF label = "count"
        \* line 59
        THEN [st EXCEPT !.heap[c].frame_count = @ + 1]
        ELSE IF label = "analyze"
        \* lines 64-88, on the keypoints detect_pose found in the image
        THEN Analyzed(st, c,
                      IF ~q.image.none
                      THEN Answered(q.image, analyze_pose(st.heap[c], q.image, now))
                      ELSE [self |-> st.heap[c], ret |-> <<st.heap[c].count, "no_person">>,
                            raised |-> FALSE])
        ELSE IF label = "replace"
        \* line 145: workout_sessions["default"] = FixedPullUpCounter()
        THEN IF \E i \in DOMAIN st.reqs : st.reqs[i].counter = 1
             THEN [st EXCEPT !.heap = <<NewCounter>> \o @,
                             !.reqs = [i \in DOMAIN @ |->
                                         IF @[i].counter >= 1
                                         THEN [@[i] EXCEPT !.counter = @ + 1]
                                         ELSE @[i]]]
             ELSE [st EXCEPT !.heap[1] = NewCounter]
        \* read, detect, respond: no effect on the session
        ELSE st

\* the request runs from statement pc up to its next await, or to its end;
\* an exception ends it at once (lines 112-114)
RECURSIVE RunFrom(_, _)
RunFrom(st, pc) ==
    LET steps == HandlerSteps(st.reqs[st.r].handler)
    IN  IF pc > Len(steps) \/ st.reqs[st.r].raised
        THEN [st EXCEPT !.reqs[st.r].pc = Len(steps) + 1]
        ELSE LET st2 == HandlerStep(st, steps[pc])
             IN  IF steps[pc] \in AwaitPoints
                 THEN [st2 EXCEPT !.reqs[st.r].pc = pc + 1]
                 ELSE RunFrom(st2, pc + 1)

Finished(q) == q.pc > Len(HandlerSteps(q.handler))

Remove(seq, r) == [i \in 1..(Len(seq) - 1) |-> IF i < r THEN seq[i] ELSE seq[i + 1]]

\* the number of analyze_frame requests in flight
FramesInFlight == Cardinality({i \in DOMAIN requests : requests[i].handler = "analyze_frame"})

HttpInputs == {GoodPose(d, 100) : d \in {0, 40}} \cup {NoneKeypoints, ShortKeypoints}

\* POST /analyze_frame arrives; detect_pose will find kp in its image
ReceiveFrame ==
    \E kp \in HttpInputs :
        /\ Len(requests) < MaxInFlight
        /\ frame_count + FramesInFlight < MaxRequestsHttp
        /\ requests' = Append(requests, NewRequest("analyze_frame", kp))
        /\ op' = "receive"
        /\ UNCHANGED <<count, position, position_history, direction_history,
                       last_rep_time, current_direction, consecutive_up_frames,
                       consecutive_down_frames, frame_count, now, keypoints, result,
                       prev, instances>>

\* POST /reset_session arrives
ReceiveReset ==
    /\ Len(requests) < MaxInFlight
    /\ requests' = Append(requests, NewRequest("reset_session", NoneKeypoints))
    /\ op' = "receive"
    /\ UNCHANGED <<count, position, position_history, direction_history,
                   last_rep_time, current_direction, consecutive_up_frames,
                   consecutive_down_frames, frame_count, now, keypoints, result,
                   prev, instances>>

\* request r has run up to its next await, or to its end, leaving st
Resumed(st, r) ==
    /\ InstallHeap(st.heap)
    /\ requests' = IF Finished(st.reqs[r]) THEN Remove(st.reqs, r) ELSE st.reqs
    /\ op' = IF Finished(st.reqs[r]) THEN st.reqs[r].handler ELSE "await"
    /\ keypoints' = st.reqs[r].image
    /\ result' = st.reqs[r].ret
    /\ prev' = Self
    /\ now' = now

\* the event loop resumes request r
Resume ==
    \E r \in DOMAIN requests :
        Resumed(RunFrom([heap |-> Heap, reqs |-> requests, r |-> r], requests[r].pc), r)

NextHttp == ReceiveFrame \/ ReceiveReset \/ Resume

SpecHttp == Init /\ [][NextHttp]_vars

----------------------------------------------------------------------------
(* SpecThreshold: every signal of up to MaxFramesThreshold accepted        *)
(* samples over levels that lie exactly movement_threshold, half a pixel   *)
(* more and one pixel more than movement_threshold apart.                  *)

MaxFramesThreshold == 8

ThresholdInputs ==
    {GoodPose(d, 100) : d \in {0, movement_threshold, movement_threshold + 1}}
        \cup {TiltedPose(movement_threshold, 100)}

ThresholdFrame ==
    \E kp \in ThresholdInputs :
        /\ Admissible(position_history, kp, MaxFramesThreshold, MaxFramesThreshold)
        /\ AnalyzePose(kp)

NextThreshold == ThresholdFrame

SpecThreshold == Init /\ [][NextThreshold]_vars

----------------------------------------------------------------------------
(* SpecRelease: every signal of up to MaxFramesRelease accepted samples    *)
(* over two levels, long enough for a confirmed direction to be released   *)
(* by a run of 'stable' frames.                                            *)

MaxFramesRelease == 14

ReleaseInputs == {GoodPose(d, 100) : d \in {0, 40}}

ReleaseFrame ==
    \E kp \in ReleaseInputs :
        /\ Admissible(position_history, kp, MaxFramesRelease, MaxFramesRelease)
        /\ AnalyzePose(kp)

NextRelease == ReleaseFrame

SpecRelease == Init /\ [][NextRelease]_vars

----------------------------------------------------------------------------
(* SpecWindows: long sessions.  The frames arrive through the HTTP         *)
(* handler, so that frame_count counts them; the signal is a square wave   *)
(* between 0 and min_movement_range whose levels are held for 4 or 5       *)
(* frames, which confirms a new direction every few frames and never       *)
(* counts a repetition, so both windows fill up and overflow.              *)

MaxFramesWindows == 48

\* the length of the run of equal samples the signal ends with
RECURSIVE TrailingRun(_)
TrailingRun(h) ==
    IF Len(h) <= 1 THEN Len(h)
    ELSE IF h[Len(h)] # h[Len(h) - 1] THEN 1
    ELSE 1 + TrailingRun(SubSeq(h, 1, Len(h) - 1))

WindowsInputs == {GoodPose(d, 100) : d \in {0, min_movement_range}}

WindowsFrame ==
    \E kp \in WindowsInputs :
        /\ frame_count < MaxFramesWindows
        /\ position_history # <<>>
            => IF WristShoulderDiff(kp) = position_history[Len(position_history)]
               THEN TrailingRun(position_history) < 5
               ELSE TrailingRun(position_history) >= 4
        /\ AnalyzeFrame(kp)

NextWindows == WindowsFrame \/ Reset

SpecWindows == Init /\ [][NextWindows]_vars

----------------------------------------------------------------------------
(* SpecTimed: timestamped frames.  Each frame is processed 0 or 1 second   *)
(* after the frame before it, so that in every state now is the time of   *)
(* the last call.                                                          *)

\* counter.analyze_pose(kp) called when the clock reads t
AnalyzePoseAt(kp, t) ==
    LET r == analyze_pose(Self, kp, t)
    IN  /\ Install(r.self)
        /\ op' = "analyze_pose"
        /\ keypoints' = kp
        /\ result' = r.ret
        /\ prev' = Self
        /\ now' = t
        /\ UNCHANGED <<instances, requests>>

MaxFramesTimed == 17

MaxSwitchesTimed == 4

TimedInputs == {GoodPose(d, 100) : d \in {0, 40}}

TimedFrame ==
    \E kp \in TimedInputs : \E t \in {now, now + 1} :
        /\ t <= ClockHorizon
        /\ Admissible(position_history, kp, MaxFramesTimed, MaxSwitchesTimed)
        /\ AnalyzePoseAt(kp, t)

NextTimed == TimedFrame

SpecTimed == Init /\ [][NextTimed]_vars

----------------------------------------------------------------------------
(* SpecCycles: timestamped frames of repeated pull-ups: a square wave      *)
(* between 0 and 40 whose levels are held for 3 or 4 frames, long enough   *)
(* for a second down/up pair to be logged during the cooldown of the first *)
(* repetition and to be followed by a further transition.                  *)

MaxFramesCycles == 21

CyclesInputs == {GoodPose(d, 100) : d \in {0, 40}}

CyclesFrame ==
    \E kp \in CyclesInputs : \E t \in {now, now + 1} :
        /\ t <= ClockHorizon
        /\ Len(position_history) < MaxFramesCycles
        /\ position_history # <<>>
            => IF WristShoulderDiff(kp) = position_history[Len(position_history)]
               THEN TrailingRun(position_history) < 4
               ELSE TrailingRun(position_history) >= 3
        /\ AnalyzePoseAt(kp, t)

NextCycles == CyclesFrame

SpecCycles == Init /\ [][NextCycles]_vars

----------------------------------------------------------------------------
(* SpecAmplitude: cycles that are not square waves.  The differential      *)
(* moves between three levels, so that a direction can be confirmed while  *)
(* the movement is still under way and the differential logged with the    *)
(* transition is not an extreme of the cycle.                              *)

MaxFramesAmplitude == 11

MaxSwitchesAmplitude == 3

AmplitudeInputs == {GoodPose(d, 100) : d \in {0, 20, 40}}

AmplitudeFrame ==
    \E kp \in AmplitudeInputs :
        /\ Admissible(position_history, kp, MaxFramesAmplitude, MaxSwitchesAmplitude)
        /\ AnalyzePose(kp)

NextAmplitude == AmplitudeFrame

SpecAmplitude == Init /\ [][NextAmplitude]_vars

----------------------------------------------------------------------------
(* SpecTwin: two ways of restarting a session side by side.  The counter   *)
(* of the variables is the session of main.py, which /reset_session        *)
(* replaces by a new FixedPullUpCounter; instances[1] is a twin that       *)
(* receives the same frames through the same handler and on which reset()  *)
(* is called instead.                                                      *)

MaxFramesTwin == 10

MaxSwitchesTwin == 2

MaxRequestsTwin == 12

TwinInputs == {GoodPose(d, 100) : d \in {0, 40}} \cup {NoneKeypoints, ShortKeypoints}

\* POST /analyze_frame, the same image served on the session and on its twin
TwinAnalyzeFrame(kp) ==
    LET r    == analyze_frame(Self, kp, now)
        twin == analyze_frame(instances[1], kp, now)
    IN  /\ Install(r.self)
        /\ instances' = <<twin.self>>
        /\ op' = "analyze_frame"
        /\ keypoints' = kp
        /\ result' = r.ret
        /\ prev' = Self
        /\ UNCHANGED <<now, requests>>

TwinFrame ==
    \E kp \in TwinInputs :
        /\ frame_count < MaxRequestsTwin
        /\ Indexable(kp) => Admissible(position_history, kp, MaxFramesTwin, MaxSwitchesTwin)
        /\ TwinAnalyzeFrame(kp)

\* POST /reset_session on the session (main.py line 145), reset() on the twin
TwinReset ==
    /\ Install(NewCounter)
    /\ instances' = <<reset(instances[1])>>
    /\ op' = "reset_session"
    /\ keypoints' = NoneKeypoints
    /\ result' = <<>>
    /\ prev' = Self
    /\ UNCHANGED <<now, requests>>

NextTwin == TwinFrame \/ TwinReset

SpecTwin == InitInstances /\ [][NextTwin]_vars

----------------------------------------------------------------------------
(* SpecRestart: timestamped pull-ups with reset() called between them.     *)
(* instances[1] is a control counter that is served the same frames at     *)
(* the same times and is never reset: it shows what the cooldown of the    *)
(* repetitions counted before the reset would still forbid.  The counter   *)
(* is reset once, at any moment.                                           *)

MaxFramesRestart == 10

MaxFramesControl == 20

RestartInputs == {GoodPose(d, 100) : d \in {0, 40}}

\* analyze_pose(kp) on the counter and on the control, the clock reading t
RestartAnalyzePose(kp, t) ==
    LET r == analyze_pose(Self, kp, t)
    IN  /\ Install(r.self)
        /\ instances' = <<analyze_pose(instances[1], kp, t).self>>
        /\ op' = "analyze_pose"
        /\ keypoints' = kp
        /\ result' = r.ret
        /\ prev' = Self
        /\ now' = t
        /\ UNCHANGED requests

RestartFrame ==
    \E kp \in RestartInputs : \E t \in {now, now + 1} :
        /\ t <= ClockHorizon
        /\ Len(position_history) < MaxFramesRestart
        /\ Len(instances[1].position_history) < MaxFramesControl
        /\ position_history # <<>>
            => IF WristShoulderDiff(kp) = position_history[Len(position_history)]
               THEN TrailingRun(position_history) < 4
               ELSE TrailingRun(position_history) >= 3
        /\ RestartAnalyzePose(kp, t)

\* counter.reset(), once: the control, left alone, runs on from there
RestartReset ==
    /\ instances[1] = Self
    /\ Reset

NextRestart == RestartFrame \/ RestartReset

SpecRestart == InitInstances /\ [][NextRestart]_vars

----------------------------------------------------------------------------
(* MotionBasedPullUpAnalyzer (test/test_pull_up_motion_detection.py), the  *)
(* analyzer of the stand-alone script, as a record of its own, and the     *)
(* loop of print_measurements_continuously that drives it.  Its thresholds *)
(* are literals and instance fields rather than config values.  The        *)
(* counters are in half frames and the time in seconds, as for the backend *)
(* counter; min_diff and max_diff are numbers with one more field, inf,    *)
(* which is 1 or -1 while they hold float('inf') or float('-inf').  The    *)
(* status texts are given without their pictographs and the arrows by      *)
(* name.                                                                   *)

\* the number x, or an infinity of sign s, as stored in min_diff and max_diff
WithInf(x, s) ==
    [val |-> x.val, num |-> x.num, den |-> x.den, complex |-> x.complex, inf |-> s]

\* MotionBasedPullUpAnalyzer.__init__
NewAnalyzer == [count |-> 0,
                position |-> "neutral",
                position_history |-> <<>>,
                direction_history |-> <<>>,
                last_rep_time |-> 0,
                rep_cooldown |-> 2,
                current_direction |-> "stable",
                consecutive_up_frames |-> 0,
                consecutive_down_frames |-> 0,
                min_consecutive_frames |-> 3,
                frame_count |-> 0,
                all_measurements |-> <<>>,
                min_diff |-> WithInf(Float(0), 1),
                max_diff |-> WithInf(Float(0), -1)]

\* line 45, min(self.min_diff, current_diff): the second argument only if
\* it is smaller
MinDiff(min_diff, current_diff) ==
    IF min_diff.inf = 1
          \/ (min_diff.inf = 0 /\ LessThan(PySub(current_diff, min_diff), 0))
    THEN WithInf(current_diff, 0)
    ELSE min_diff

\* line 46, max(self.max_diff, current_diff): the second argument only if
\* it is larger
MaxDiff(max_diff, current_diff) ==
    IF max_diff.inf = -1
          \/ (max_diff.inf = 0 /\ GreaterThan(PySub(current_diff, max_diff), 0))
    THEN WithInf(current_diff, 0)
    ELSE max_diff

\* lines 91-108: the status text and the arrow shown for a direction
StatusDisplay(confirmed_direction, up, down) ==
    IF confirmed_direction = "up"
    THEN IF up >= 2 * 6 THEN <<"PULLING UP (Strong)", "up up">>
         ELSE <<"PULLING UP (Weak)", "up">>
    ELSE IF confirmed_direction = "down"
    THEN IF down >= 2 * 6 THEN <<"LOWERING DOWN (Strong)", "down down">>
         ELSE <<"LOWERING DOWN (Weak)", "down">>
    ELSE <<"STABLE/TRANSITION", "left right">>

\* MotionBasedPullUpAnalyzer.detect_direction_change, lines 39-110, called
\* when the clock reads t.  ret is the returned 4-tuple; raised says the
\* call left through a TypeError: min() of line 45 cannot order a complex
\* current_diff, and the comparison of line 57 cannot order a movement made
\* complex by a complex sample that an earlier, failed call left in the
\* window (the two appends of lines 41-42 come first).
analyzer_detect_direction_change(self, current_diff, t) ==
    LET h  == DequeAppend(self.position_history, current_diff, 30)
        s0 == [self EXCEPT !.position_history = h,
                           !.all_measurements = Append(@, current_diff)]
    IN  IF current_diff.complex
        THEN [self |-> s0, raised |-> TRUE, ret |-> <<>>]
        ELSE
        LET s1 == [s0 EXCEPT !.min_diff = MinDiff(@, current_diff),
                             !.max_diff = MaxDiff(@, current_diff)]
        IN  IF Len(h) < 5
            THEN [self |-> s1, raised |-> FALSE,
                  ret |-> <<"starting", 0, "STARTING", "left right">>]
            ELSE
            LET recent   == SubSeq(h, Len(h) - 4, Len(h))
                movement == PySub(recent[5], recent[1])
            IN  IF movement.complex
                THEN [self |-> s1, raised |-> TRUE, ret |-> <<>>]
                ELSE
                LET new_direction == IF GreaterThan(movement, 8) THEN "up"
                                     ELSE IF LessThan(movement, -8) THEN "down"
                                     ELSE "stable"
                    up   == IF new_direction = "up" THEN self.consecutive_up_frames + 2
                            ELSE IF new_direction = "down" THEN 0
                            ELSE IF self.consecutive_up_frames > 0
                                 THEN Max(0, self.consecutive_up_frames - 1)
                                 ELSE self.consecutive_up_frames
                    down == IF new_direction = "up" THEN 0
                            ELSE IF new_direction = "down"
                                 THEN self.consecutive_down_frames + 2
                            ELSE IF self.consecutive_down_frames > 0
                                 THEN Max(0, self.consecutive_down_frames - 1)
                                 ELSE self.consecutive_down_frames
                    confirmed_direction ==
                        IF up >= 2 * self.min_consecutive_frames THEN "up"
                        ELSE IF down >= 2 * self.min_consecutive_frames THEN "down"
                        ELSE IF up = 0 /\ down = 0 THEN "stable"
                        ELSE self.current_direction
                    s2 == [s1 EXCEPT
                             !.consecutive_up_frames = up,
                             !.consecutive_down_frames = down,
                             !.direction_history =
                                 IF confirmed_direction # self.current_direction
                                 THEN DequeAppend(@, <<confirmed_direction, t, current_diff>>, 10)
                                 ELSE @,
                             !.current_direction = confirmed_direction]
                    display == StatusDisplay(confirmed_direction, up, down)
                IN  [self |-> s2, raised |-> FALSE,
                     ret |-> <<confirmed_direction, PyAbs(movement),
                               display[1], display[2]>>]

\* check_for_rep leaving the direction log as it is
check_for_rep_keeping_log(self, current_diff, t) ==
    LET dh == self.direction_history
    IN  IF /\ t - self.last_rep_time > self.rep_cooldown
           /\ Len(dh) >= 2
           /\ dh[Len(dh) - 1][1] = "down"
           /\ dh[Len(dh)][1] = "up"
           /\ GreaterThan(PyAbs(PySub(dh[Len(dh)][3], dh[Len(dh) - 1][3])), 30)
        THEN [self |-> [self EXCEPT !.count = @ + 1, !.last_rep_time = t],
              ret |-> TRUE]
        ELSE [self |-> self, ret |-> FALSE]

\* MotionBasedPullUpAnalyzer.check_for_rep, lines 112-142, the clock
\* reading t
check_for_rep(self, current_diff, t) ==
    IF t - self.last_rep_time > self.rep_cooldown
    THEN IF Len(self.direction_history) >= 2
         THEN LET recent_changes == SubSeq(self.direction_history,
                                           Len(self.direction_history) - 1,
                                           Len(self.direction_history))
              IN  IF /\ Len(recent_changes) = 2
                     /\ recent_changes[1][1] = "down"
                     /\ recent_changes[2][1] = "up"
                  THEN LET down_diff == recent_changes[1][3]
                           up_diff   == recent_changes[2][3]
                           movement_range == PyAbs(PySub(up_diff, down_diff))
                       IN  IF GreaterThan(movement_range, 30)
                           THEN [self |-> [self EXCEPT !.count = @ + 1,
                                                       !.last_rep_time = t,
                                                       !.direction_history = <<>>],
                                 ret |-> TRUE]
                           ELSE [self |-> self, ret |-> FALSE]
                  ELSE [self |-> self, ret |-> FALSE]
         ELSE [self |-> self, ret |-> FALSE]
    ELSE [self |-> self, ret |-> FALSE]

\* what one pass of the loop leaves besides the analyzer: the values the
\* two calls returned (none when the frame was skipped) and whether the
\* loop goes on
Pass(detected, rep_completed, running) ==
    [detected |-> detected, rep_completed |-> rep_completed, running |-> running]

\* Lines 197-262 of print_measurements_continuously, for the frame in
\* which the pose model found kp, the clock reading t: the frame is
\* counted; when there is a detection (line 202, which tests the number of
\* detections, not the rows of the first) and the smallest of the four
\* confidences is above 0.3 (line 215) the differential is passed to
\* detect_direction_change and then to check_for_rep.  Nothing in the loop
\* catches an IndexError or a TypeError: the script ends, also on a
\* detection of 0 rows.
AnalyzerStep(analyzer, kp, t) ==
    LET counted == [analyzer EXCEPT !.frame_count = @ + 1]
    IN  IF kp.none
        THEN <<counted, Pass(<<>>, FALSE, TRUE)>>
        ELSE IF ~(Len(kp.pts) >= 11 /\ \A i \in {6, 7, 10, 11} : Len(kp.pts[i]) >= 3)
        THEN <<counted, Pass(<<>>, FALSE, FALSE)>>
        ELSE IF ~(Min4(kp.pts[6][3], kp.pts[7][3], kp.pts[10][3], kp.pts[11][3]) > 30)
        THEN <<counted, Pass(<<>>, FALSE, TRUE)>>
        ELSE
        LET shoulder_y == PyHalf(PyAdd(kp.pts[6][2], kp.pts[7][2]))
            wrist_y    == PyHalf(PyAdd(kp.pts[10][2], kp.pts[11][2]))
            diff       == PySub(wrist_y, shoulder_y)
            d          == analyzer_detect_direction_change(counted, diff, t)
        IN  IF d.raised
            THEN <<d.self, Pass(<<>>, FALSE, FALSE)>>
            ELSE LET c == check_for_rep(d.self, diff, t)
                 IN  <<c.self, Pass(d.ret, c.ret, TRUE)>>

\* The whole pass, lines 197-275: the frame, then the key read at line
\* 269: 'q' leaves the loop, 'r' replaces the analyzer by a new one.
AnalyzerPass(analyzer, kp, t, key) ==
    LET step == AnalyzerStep(analyzer, kp, t)
    IN  IF ~step[2].running THEN step
        ELSE IF key = "q" THEN <<step[1], [step[2] EXCEPT !.running = FALSE]>>
        ELSE IF key = "r" THEN <<NewAnalyzer, step[2]>>
        ELSE step

----------------------------------------------------------------------------
(* SpecAnalyzer: the backend counter and the analyzer of the script served *)
(* the same timestamped frames.  instances[1] is the analyzer,             *)
(* instances[2] what the last pass of its loop left.  The accepted frames  *)
(* hold each of their levels for 3 or 4 frames; frames without a person    *)
(* and frames of low confidence come in between.  When 'r' restarts the    *)
(* analyzer, reset() is called on the counter.                             *)

MaxFramesAnalyzer == 18

MaxPassesAnalyzer == 19

AnalyzerInputs ==
    {GoodPose(d, 100) : d \in {0, 40}}
        \cup {NoneKeypoints, EmptyKeypoints, LowPose(40, 10, 29)}

\* the keys read at line 269; "" is no key
AnalyzerKeys == {"", "q", "r"}

\* what one pass leaves: pass is the analyzer and the locals of the loop, r
\* what counter.analyze_pose left and returned on the same frame; when the
\* pass reached line 274 and replaced the analyzer, the counter is reset too
AnalyzerServed(kp, t, key, pass, r) ==
    /\ Install(IF key = "r" /\ pass[2].running THEN reset(r.self) ELSE r.self)
    /\ instances' = pass
    /\ op' = IF key = "r" /\ pass[2].running THEN "reset" ELSE "analyze_pose"
    /\ keypoints' = IF key = "r" /\ pass[2].running THEN NoneKeypoints ELSE kp
    /\ result' = IF key = "r" /\ pass[2].running THEN <<>> ELSE r.ret
    /\ prev' = IF key = "r" /\ pass[2].running THEN r.self ELSE Self
    /\ now' = t
    /\ UNCHANGED requests

\* one pass of the loop, the same frame going to counter.analyze_pose
AnalyzerFrame ==
    \E kp \in AnalyzerInputs : \E t \in {now, now + 1} : \E key \in AnalyzerKeys :
        /\ instances[2].running
        /\ t <= ClockHorizon
        /\ instances[1].frame_count < MaxPassesAnalyzer
        /\ ~(NoPerson(kp) \/ LowConfidence(kp))
            => /\ Len(position_history) < MaxFramesAnalyzer
               /\ position_history # <<>>
                   => IF WristShoulderDiff(kp) = position_history[Len(position_history)]
                      THEN TrailingRun(position_history) < 4
                      ELSE TrailingRun(position_history) >= 3
        /\ AnalyzerServed(kp, t, key, AnalyzerPass(instances[1], kp, t, key),
                          analyze_pose(Self, kp, t))

\* line 193: cap.read() delivers no frame and the loop ends
AnalyzerEnd ==
    /\ instances[2].running
    /\ instances' = <<instances[1], [instances[2] EXCEPT !.running = FALSE]>>
    /\ UNCHANGED <<count, position, position_history, direction_history,
                   last_rep_time, current_direction, consecutive_up_frames,
                   consecutive_down_frames, frame_count, now, op, keypoints,
                   result, prev, requests>>

\* a new counter and a new analyzer
InitAnalyzer ==
    /\ count = NewCounter.count
    /\ position = NewCounter.position
    /\ position_history = NewCounter.position_history
    /\ direction_history = NewCounter.direction_history
    /\ last_rep_time = NewCounter.last_rep_time
    /\ current_direction = NewCounter.current_direction
    /\ consecutive_up_frames = NewCounter.consecutive_up_frames
    /\ consecutive_down_frames = NewCounter.consecutive_down_frames
    /\ frame_count = NewCounter.frame_count
    /\ now = Epoch
    /\ op = "init"
    /\ keypoints = NoneKeypoints
    /\ result = <<>>
    /\ prev = NewCounter
    /\ instances = <<NewAnalyzer, Pass(<<>>, FALSE, TRUE)>>
    /\ requests = <<>>

NextAnalyzer == AnalyzerFrame \/ AnalyzerEnd

SpecAnalyzer == InitAnalyzer /\ [][NextAnalyzer]_vars

----------------------------------------------------------------------------
(* get_motivation_text (utils/motivation.py), the text main.py puts in the *)
(* answer to a frame (line 90).  SpecMotivation applies it to every rep    *)
(* count of a bounded range; requests[1] is the call, with its argument    *)
(* and the texts returned so far.                                          *)

\* lines 14-35
motivational_messages ==
    << "Keep pushing, you're strong!",
       "Strong and steady wins!",
       "Feel the burn now!",
       "One more, then another!",
       "Warrior spirit never quits!",
       "You're crushing it today!",
       "Power through, stay focused!",
       "Champions never give up!",
       "Stronger with every rep!",
       "Mind over matter always!",
       "Push your limits higher!",
       "Sweat now, shine later!",
       "Unstoppable force in motion!",
       "Every rep builds greatness!",
       "Fire burns within you!",
       "Transform pain into strength!",
       "Victory is earned daily!",
       "Relentless pursuit of excellence!",
       "Break barriers, exceed expectations!",
       "Beast mode is activated!" >>

\* message_index counting the repetitions from 0
message_index_from_zero(rep_count) == rep_count % Len(motivational_messages)

\* line 38; Python's % takes the sign of the divisor, as % does here
message_index(rep_count) == (rep_count - 1) % Len(motivational_messages)

\* line 39; Python indexes the list from 0
selected_message(rep_count) == motivational_messages[message_index(rep_count) + 1]

\* line 42
get_motivation_text(rep_count) ==
    "Rep " \o ToString(rep_count) \o " - " \o selected_message(rep_count)

MaxRepCount == 60

MaxCalls == 2

\* get_motivation_text(rep_count), called once more with the same argument
Motivate ==
    /\ Len(requests[1].returned) < MaxCalls
    /\ requests' = <<[requests[1] EXCEPT
                        !.returned = Append(@, get_motivation_text(requests[1].rep_count))]>>
    /\ op' = "get_motivation_text"
    /\ UNCHANGED <<count, position, position_history, direction_history,
                   last_rep_time, current_direction, consecutive_up_frames,
                   consecutive_down_frames, frame_count, keypoints, result, prev,
                   now, instances>>

\* a rep count to be put into words
InitMotivation ==
    /\ count = NewCounter.count
    /\ position = NewCounter.position
    /\ position_history = NewCounter.position_history
    /\ direction_history = NewCounter.direction_history
    /\ last_rep_time = NewCounter.last_rep_time
    /\ current_direction = NewCounter.current_direction
    /\ consecutive_up_frames = NewCounter.consecutive_up_frames
    /\ consecutive_down_frames = NewCounter.consecutive_down_frames
    /\ frame_count = NewCounter.frame_count
    /\ now = Epoch
    /\ op = "init"
    /\ keypoints = NoneKeypoints
    /\ result = <<>>
    /\ prev = NewCounter
    /\ instances = <<>>
    /\ \E n \in 0..MaxRepCount :
           requests = <<[handler |-> "get_motivation_text", rep_count |-> n,
                         returned |-> <<>>]>>

NextMotivation == Motivate

SpecMotivation == InitMotivation /\ [][NextMotivation]_vars

----------------------------------------------------------------------------
(* Properties.  prev holds the counter before the last call, so a property *)
(* of one call is a state predicate relating prev to the current fields.   *)

\* the last call was analyze_pose, directly or through the HTTP handler
FrameProcessed == op \in {"analyze_pose", "analyze_frame"}

\* the directions of a direction-change log, oldest first
Dirs(dh) == [i \in 1..Len(dh) |-> dh[i][1]]

\* the values of a sequence of samples
Vals(h) == [i \in 1..Len(h) |-> h[i].val]

\* The direction-change log as it stood after the classification of the
\* last frame and before the rep check, as (direction, differential) pairs:
\* the log before the frame, plus the entry of this frame when the confirmed
\* direction changed on it.
ObservedLog ==
    LET before == [i \in 1..Len(prev.direction_history) |->
                     <<prev.direction_history[i][1], prev.direction_history[i][3].val>>]
    IN  IF FrameProcessed /\ current_direction # prev.current_direction
        THEN Append(before, <<current_direction, WristShoulderDiff(keypoints).val>>)
        ELSE before

\* the log ends with a 'down' entry followed by an 'up' entry
EndsDownUp(log) ==
    /\ Len(log) >= 2
    /\ log[Len(log) - 1][1] = "down"
    /\ log[Len(log)][1] = "up"

\* |up_diff - down_diff| of the last two entries
EndRange(log) == Abs(log[Len(log)][2] - log[Len(log) - 1][2])

\* C1: a call of analyze_pose, whatever the frame, leaves count as it was or
\* raises it by exactly 1; count is smaller than before the last call only
\* when that call was reset().
C1_Monotonic ==
    /\ FrameProcessed => count \in {prev.count, prev.count + 1}
    /\ count < prev.count => op = "reset"

\* a frame on which count went up by one
C1_Witness == op = "analyze_pose" /\ count = prev.count + 1 /\ count = 1

\* C2: a frame increments count only if it is processed strictly more than
\* rep_cooldown after the previous increment (last_rep_time is the time of
\* the frame that incremented count last): a frame at exactly rep_cooldown
\* does not count.
C2_NoDoubleCount ==
    (FrameProcessed /\ count > prev.count)
        => last_rep_time - prev.last_rep_time > rep_cooldown

\* the pattern is replayed after a counted repetition and its 'up' is
\* confirmed exactly rep_cooldown after it: the log ends (down, up) with
\* range above 30, and count has not moved
C2_Witness ==
    /\ op = "analyze_pose"
    /\ prev.count = 1 /\ count = 1
    /\ current_direction # prev.current_direction
    /\ EndsDownUp(ObservedLog) /\ EndRange(ObservedLog) > min_movement_range
    /\ direction_history[Len(direction_history)][2] - last_rep_time = rep_cooldown

\* C3: count does not increment on a frame after whose classification the
\* log ends (down, up) with |up_diff - down_diff| <= min_movement_range.
C3_AmplitudeGate ==
    (FrameProcessed /\ EndsDownUp(ObservedLog)
        /\ EndRange(ObservedLog) <= min_movement_range)
        => count = prev.count

\* an 'up' confirmed on this frame closes a (down, up) pair of range exactly
\* 30 while the cooldown has elapsed, and count stays 0
C3_Witness ==
    /\ op = "analyze_pose"
    /\ current_direction # prev.current_direction
    /\ EndsDownUp(ObservedLog) /\ EndRange(ObservedLog) = min_movement_range
    /\ now - prev.last_rep_time > rep_cooldown
    /\ count = 0

\* C4: count increments on a frame only if, after its classification, the
\* log holds at least two entries and the last two are 'down' then 'up'.
C4_PatternGate ==
    (FrameProcessed /\ count > prev.count) => EndsDownUp(ObservedLog)

\* the log reads (down, stable, up), the 'up' logged on this frame with the
\* cooldown elapsed and a span of 40 between the down and the up: no count
C4_Witness ==
    /\ op = "analyze_pose"
    /\ current_direction # prev.current_direction
    /\ Dirs(direction_history) = <<"down", "stable", "up">>
    /\ Abs(direction_history[3][3].val - direction_history[1][3].val) > min_movement_range
    /\ now - last_rep_time > rep_cooldown
    /\ count = 0

\* the net movement of sample i over the 5-sample window exceeds the
\* threshold in direction dir
Exceeds(h, i, dir) ==
    IF dir = "up" THEN h[i].val - h[i - 4].val > movement_threshold
    ELSE h[i - 4].val - h[i].val > movement_threshold

\* the signal holds 3 consecutive frames exceeding the threshold in one direction
ThreeConsecutive(h) ==
    \E dir \in {"up", "down"} : \E i \in 5..(Len(h) - 2) :
        Exceeds(h, i, dir) /\ Exceeds(h, i + 1, dir) /\ Exceeds(h, i + 2, dir)

\* the number of frames of the signal exceeding the threshold in direction dir
ExceedingFrames(h, dir) == Cardinality({i \in 5..Len(h) : Exceeds(h, i, dir)})

\* C5 as stated: from a new counter, current_direction leaves 'stable' only
\* if the accepted frames hold 3 consecutive frames exceeding the threshold
\* in one direction.
C5_Original == current_direction # "stable" => ThreeConsecutive(position_history)

\* C5 amended: from a new counter, current_direction is 'up' ('down') only
\* if at least min_consecutive_frames of the accepted frames exceed the
\* threshold in that direction; they need not be consecutive.
C5_ConfirmationGate ==
    \A dir \in {"up", "down"} :
        current_direction = dir
            => ExceedingFrames(position_history, dir) >= min_consecutive_frames

\* 'up' confirmed by up, up, stable, up, up: no 3 consecutive frames
C5_Witness ==
    /\ op = "analyze_pose"
    /\ current_direction = "up"
    /\ ~ThreeConsecutive(position_history)

\* the fields a rejected frame must leave alone
Frozen ==
    /\ count = prev.count
    /\ position = prev.position
    /\ position_history = prev.position_history
    /\ direction_history = prev.direction_history
    /\ consecutive_up_frames = prev.consecutive_up_frames
    /\ consecutive_down_frames = prev.consecutive_down_frames
    /\ current_direction = prev.current_direction
    /\ last_rep_time = prev.last_rep_time

\* C6: analyze_pose on a frame with one of the rows 5, 6, 9, 10 below
\* min_confidence returns (count, "low_confidence") and changes none of
\* count, the two histories, the two counters, current_direction,
\* last_rep_time and position.
C6_LowConfidenceFreeze ==
    (/\ op = "analyze_pose"
     /\ ~keypoints.none /\ Len(keypoints.pts) >= 11
     /\ \E i \in {6, 7, 10, 11} : keypoints.pts[i][3] < min_confidence)
        => (result = <<prev.count, "low_confidence">> /\ Frozen)

\* a low-confidence wrist on a counter that has counted a repetition
C6_Witness ==
    /\ op = "analyze_pose"
    /\ ~keypoints.none /\ Len(keypoints.pts) >= 11
    /\ keypoints.pts[10][3] < min_confidence
    /\ result = <<1, "low_confidence">>
    /\ current_direction = "up"

\* C7: analyze_pose with keypoints None or empty returns (count,
\* "no_person") and changes no field of the counter.
C7_NoDetectionFreeze ==
    (op = "analyze_pose" /\ (keypoints.none \/ Len(keypoints.pts) = 0))
        => (result = <<prev.count, "no_person">> /\ Self = prev)

\* an empty array on a counter that has counted a repetition
C7_Witness ==
    /\ op = "analyze_pose"
    /\ keypoints = EmptyKeypoints
    /\ result = <<1, "no_person">>
    /\ position_history # <<>>

\* C8 as stated: a call of analyze_pose that ends in "error" returns
\* (count, "error") and leaves count, the two histories, the two counters,
\* current_direction and last_rep_time as they were.
C8_FailureFreeze ==
    (op = "analyze_pose" /\ result # <<>> /\ result[2] = "error")
        => (result = <<prev.count, "error">> /\ Frozen)

\* C9: after reset() every field holds its initial value, and a second
\* reset() changes nothing.
C9_ResetIdempotent ==
    op = "reset"
        => /\ count = 0
           /\ position = "neutral"
           /\ position_history = <<>>
           /\ direction_history = <<>>
           /\ consecutive_up_frames = 0
           /\ consecutive_down_frames = 0
           /\ current_direction = "stable"
           /\ last_rep_time = 0
           /\ frame_count = 0
           /\ reset(Self) = Self

\* reset() called on a counter that has counted a repetition
C9_Witness ==
    /\ op = "reset"
    /\ prev.count = 1
    /\ prev.frame_count > 0
    /\ prev.last_rep_time > 0
    /\ prev.position_history # <<>>

\* Scenario A of the specification
ScenarioA == <<0, 0, 0, 0, 0, 20, 20, 20, 20, 20, 0>>

\* the last call accepted the last frame of Scenario A on a counter that
\* had accepted exactly the frames before it since it was new
ScenarioADone ==
    /\ op = "analyze_pose"
    /\ keypoints = GoodPose(ScenarioA[Len(ScenarioA)], 100)
    /\ position_history = [i \in 1..Len(ScenarioA) |-> Float(ScenarioA[i])]

\* the number of adjacent (down, up) pairs of a log
DownUpPairs(dh) ==
    Cardinality({i \in 1..(Len(dh) - 1) : dh[i][1] = "down" /\ dh[i + 1][1] = "up"})

\* C10 as stated: after Scenario A the log holds exactly one down-then-up
\* pair, or that pair was counted (count = 1, the log cleared).
C10_Original ==
    ScenarioADone
        => \/ count = 1
           \/ count = 0 /\ DownUpPairs(direction_history) = 1

\* C10 amended: after Scenario A the log holds exactly one entry, the 'up'
\* confirmed at differential 20; the closing 0 is a single raw 'down' frame
\* and confirms nothing, so there is no down-then-up pair and count is 0.
C10_ScenarioA ==
    ScenarioADone
        => /\ count = 0
           /\ Len(direction_history) = 1
           /\ direction_history[1][1] = "up"
           /\ direction_history[1][3] = Float(20)
           /\ current_direction = "up"
           /\ consecutive_up_frames = 0
           /\ consecutive_down_frames = 2

\* Scenario A has been processed
C10_Witness == ScenarioADone /\ result = <<0, "pulling_up">>

\* the frame of the last call was rejected: no keypoints (line 82), or the
\* four rows and their confidences could be read (lines 87-93) and the
\* smallest confidence is below min_confidence (line 94).  A frame on which
\* line 93 raises is answered "error", not rejected, whatever the
\* confidences of its other rows.
Rejected ==
    /\ FrameProcessed
    /\ \/ NoPerson(keypoints)
       \/ /\ Extractable(keypoints)
          /\ MinConfidence(keypoints) < min_confidence

\* an accepted frame whose wrist-shoulder differential is the sample s
PoseOf(s) == Pose(Point(Float(0), 100), Point(Float(0), 100), Point(s, 100), Point(s, 100))

\* the counter a new counter becomes by processing, at time t, one accepted
\* frame per sample of h and nothing else
RECURSIVE Replayed(_, _)
Replayed(h, t) ==
    IF h = <<>> THEN NewCounter
    ELSE analyze_pose(Replayed(SubSeq(h, 1, Len(h) - 1), t), PoseOf(h[Len(h)]), t).self

\* C11: a rejected frame (no keypoints, or minimum confidence below the
\* threshold) leaves count, the two histories, the two counters,
\* current_direction and last_rep_time exactly as they were, so that the
\* counter always equals the one obtained by processing only the frames
\* that were not rejected since the last reset; in particular the sample
\* window does not advance and no counter decays.
C11_NoObservation ==
    /\ Rejected
        => /\ count = prev.count
           /\ position_history = prev.position_history
           /\ direction_history = prev.direction_history
           /\ consecutive_up_frames = prev.consecutive_up_frames
           /\ consecutive_down_frames = prev.consecutive_down_frames
           /\ current_direction = prev.current_direction
           /\ last_rep_time = prev.last_rep_time
    /\ LET only == Replayed(position_history, now)
       IN  /\ count = only.count
           /\ direction_history = only.direction_history
           /\ consecutive_up_frames = only.consecutive_up_frames
           /\ consecutive_down_frames = only.consecutive_down_frames
           /\ current_direction = only.current_direction
           /\ last_rep_time = only.last_rep_time

\* a low-confidence frame arrives between the second and the third raw
\* 'up' frame: the up counter stands at 2 and the window holds 6 samples
C11_Witness ==
    /\ op = "analyze_pose"
    /\ Rejected /\ ~keypoints.none /\ Len(keypoints.pts) >= 11
    /\ consecutive_up_frames = 2 * 2
    /\ Len(position_history) = 6
    /\ current_direction = "stable"

\* the last call was made on another FixedPullUpCounter object
OtherCalled == op \in {"other.analyze_pose", "other.reset"}

\* the fields of a counter that its own frames determine
SessionFields(c) ==
    <<c.count, c.position, c.position_history, c.direction_history, c.last_rep_time,
      c.current_direction, c.consecutive_up_frames, c.consecutive_down_frames>>

\* C12: a call of analyze_pose or reset on another instance leaves every
\* field of this counter unchanged, and every instance is in the state its
\* own accepted frames since its last reset lead to, whatever calls were
\* made on other instances in between.
C12_SessionIndependence ==
    /\ OtherCalled => Self = prev
    /\ \A i \in DOMAIN Heap :
           SessionFields(Heap[i]) = SessionFields(Replayed(Heap[i].position_history, now))

\* a frame confirms 'up' on the other instance while this counter stands
\* between its second and third raw 'up' frame
C12_Witness ==
    /\ op = "other.analyze_pose"
    /\ instances[1].current_direction = "up"
    /\ Len(instances[1].direction_history) = 1
    /\ current_direction = "stable"
    /\ consecutive_up_frames = 2 * 2
    /\ Len(position_history) = 6

\* C13: no request is ever suspended between its session lookup and its
\* response, so no request holds a counter across an await and no replaced
\* counter stays referenced; every completed analyze_frame request has had
\* exactly the effect of one uninterrupted frame on the session's counter as
\* it stood when the request resumed, and reports that counter's count;
\* after reset_session the session's counter is a new one, and at all times
\* it holds only frames counted since the last reset.
C13_ResetSafe ==
    /\ \A i \in DOMAIN requests : requests[i].counter = 0
    /\ instances = <<>>
    /\ op = "analyze_frame"
        => /\ Self = analyze_frame(prev, keypoints, now).self
           /\ result = analyze_frame(prev, keypoints, now).ret
           /\ (result = <<>>) = analyze_frame(prev, keypoints, now).raised
           /\ result # <<>> => result[1] = count
    /\ op = "reset_session" => Self = NewCounter
    /\ Len(position_history) <= frame_count
    /\ SessionFields(Self) = SessionFields(Replayed(position_history, now))

\* reset_session has completed on a session whose up counter stood at 1
\* while a frame received before it is still awaiting its upload
C13_Witness ==
    /\ op = "reset_session"
    /\ prev.consecutive_up_frames = 2
    /\ \E i \in DOMAIN requests :
           requests[i].handler = "analyze_frame" /\ requests[i].pc = 2

\* the last call was analyze_pose on a frame that was neither rejected nor
\* failed
Accepted ==
    /\ FrameProcessed
    /\ result # <<>>
    /\ result[2] \in {"pulling_up", "lowering_down", "stable"}

\* the last frame was accepted and the window held at least 5 samples
Classified == Accepted /\ Len(position_history) >= 5

\* newest sample minus the sample 4 positions earlier, for whole samples
Movement ==
    position_history[Len(position_history)].val
        - position_history[Len(position_history) - 4].val

\* the same counted in half pixels, for samples that are multiples of 0.5
MovementHalves ==
    Units(position_history[Len(position_history)], 2)
        - Units(position_history[Len(position_history) - 4], 2)

\* The raw direction of the last frame, read off the counters: only a raw
\* 'up' raises the up counter (by one frame), only a raw 'down' raises the
\* down counter.
ObservedRaw ==
    IF consecutive_up_frames = prev.consecutive_up_frames + 2 THEN "up"
    ELSE IF consecutive_down_frames = prev.consecutive_down_frames + 2 THEN "down"
    ELSE "stable"

\* C14: on an accepted frame with at least 5 samples the raw direction is
\* 'up' iff movement > 8, 'down' iff movement < -8 and 'stable' otherwise
\* (so also at exactly +8 and -8), whatever the counters and the confirmed
\* direction were, and the magnitude returned is |movement|.
C14_RawClassification ==
    Classified
        => /\ ObservedRaw = "up" <=> MovementHalves > 2 * movement_threshold
           /\ ObservedRaw = "down" <=> MovementHalves < -2 * movement_threshold
           /\ ObservedRaw = "stable"
                  <=> (MovementHalves >= -2 * movement_threshold
                          /\ MovementHalves <= 2 * movement_threshold)
           /\ Units(detect_direction_change(prev, WristShoulderDiff(keypoints), now).magnitude, 2)
                  = (IF MovementHalves < 0 THEN -MovementHalves ELSE MovementHalves)

\* a frame of movement exactly +8 arrives after one raw 'up' frame and
\* lowers the up counter from 1 to 0.5
C14_Witness ==
    /\ Classified
    /\ MovementHalves = 2 * movement_threshold
    /\ prev.consecutive_up_frames = 2
    /\ consecutive_up_frames = 1

\* the last call was analyze_pose on a frame with the four keypoints present
\* and confident, made on a counter holding fewer than 4 samples
WarmUpFrame ==
    /\ FrameProcessed
    /\ ~keypoints.none /\ Len(keypoints.pts) >= 11
    /\ \A i \in {6, 7, 10, 11} : keypoints.pts[i][3] >= min_confidence
    /\ Len(prev.position_history) < 4

\* C15: each of the first 4 accepted frames after construction or reset
\* appends its sample to position_history and changes nothing else but
\* position: detect_direction_change returns ('starting', 0), the counters,
\* current_direction, direction_history and count hold their initial
\* values, and analyze_pose returns (0, 'stable'); 'starting' is never
\* stored as current_direction nor logged.
C15_WarmUp ==
    /\ WarmUpFrame
        => /\ detect_direction_change(prev, WristShoulderDiff(keypoints), now).direction
                  = "starting"
           /\ detect_direction_change(prev, WristShoulderDiff(keypoints), now).magnitude = 0
           /\ position_history
                  = Append(prev.position_history, WristShoulderDiff(keypoints))
           /\ consecutive_up_frames = 0 /\ consecutive_down_frames = 0
           /\ current_direction = "stable"
           /\ direction_history = <<>>
           /\ count = 0
           /\ last_rep_time = prev.last_rep_time
           /\ frame_count = prev.frame_count
           /\ position = "stable"
           /\ result = <<0, "stable">>
    /\ current_direction # "starting"
    /\ \A i \in DOMAIN direction_history : direction_history[i][1] # "starting"

\* the fourth sample after a reset lies 40 above the three before it
C15_Witness ==
    /\ WarmUpFrame
    /\ Vals(position_history) = <<0, 0, 0, 40>>
    /\ result = <<0, "stable">>

\* C16: the two counters are never positive together; a classified frame
\* whose movement exceeds the threshold upwards adds one frame to the up
\* counter and sets the down counter to 0, and symmetrically downwards.
C16_MutualExclusion ==
    /\ ~(consecutive_up_frames > 0 /\ consecutive_down_frames > 0)
    /\ (Classified /\ Movement > movement_threshold)
        => /\ consecutive_up_frames = prev.consecutive_up_frames + 2
           /\ consecutive_down_frames = 0
    /\ (Classified /\ Movement < -movement_threshold)
        => /\ consecutive_down_frames = prev.consecutive_down_frames + 2
           /\ consecutive_up_frames = 0

\* a raw 'up' frame arrives while the down counter stands at 1
C16_Witness ==
    /\ Classified
    /\ Movement > movement_threshold
    /\ prev.consecutive_down_frames = 2
    /\ consecutive_up_frames = 2
    /\ consecutive_down_frames = 0

\* C17: a classified frame whose movement does not exceed the threshold
\* lowers each positive counter by exactly half a frame and leaves a
\* counter at 0 there; both counters are non-negative whole numbers of
\* half-frames in every reachable state.
C17_HalfStepDecay ==
    /\ consecutive_up_frames \in Nat
    /\ consecutive_down_frames \in Nat
    /\ (/\ Classified
        /\ Movement <= movement_threshold
        /\ Movement >= -movement_threshold)
        => /\ consecutive_up_frames =
                  (IF prev.consecutive_up_frames > 0
                   THEN prev.consecutive_up_frames - 1 ELSE 0)
           /\ consecutive_down_frames =
                  (IF prev.consecutive_down_frames > 0
                   THEN prev.consecutive_down_frames - 1 ELSE 0)

\* a second 'stable' frame in a row lowers the up counter from 1.5 to 1
C17_Witness ==
    /\ Classified
    /\ Movement = 0
    /\ prev.consecutive_up_frames = 3
    /\ consecutive_up_frames = 2
    /\ consecutive_down_frames = 0

\* C18: after a classified frame current_direction is 'up' if the up
\* counter is at least 3 frames, else 'down' if the down counter is at least
\* 3 frames, else 'stable' if both counters are 0, else what it was before
\* the frame; so a counter of 2.5 or less confirms nothing and a counter
\* strictly between 0 and 3 does not release the direction to 'stable'.
C18_ConfirmationRule ==
    Classified
        => /\ current_direction =
                  (IF consecutive_up_frames >= 2 * 3 THEN "up"
                   ELSE IF consecutive_down_frames >= 2 * 3 THEN "down"
                   ELSE IF consecutive_up_frames = 0 /\ consecutive_down_frames = 0
                        THEN "stable"
                   ELSE prev.current_direction)
           /\ (consecutive_up_frames < 2 * 3 /\ current_direction = "up")
                  => prev.current_direction = "up"
           /\ (consecutive_down_frames < 2 * 3 /\ current_direction = "down")
                  => prev.current_direction = "down"
           /\ (consecutive_up_frames + consecutive_down_frames > 0
                  /\ current_direction = "stable")
                  => prev.current_direction = "stable"

\* the up counter reaches 2.5 (up, up, stable, up) and the direction stays
\* 'stable'
C18_Witness ==
    /\ Classified
    /\ consecutive_up_frames = 5
    /\ prev.consecutive_up_frames = 3
    /\ current_direction = "stable"

\* the number of frames at the end of the signal h, all classified, whose
\* movement stays within the threshold
RECURSIVE TrailingStable(_)
TrailingStable(h) ==
    IF Len(h) < 5 THEN 0
    ELSE LET mv == h[Len(h)].val - h[Len(h) - 4].val
         IN  IF mv <= movement_threshold /\ mv >= -movement_threshold
             THEN 1 + TrailingStable(SubSeq(h, 1, Len(h) - 1))
             ELSE 0

\* the counter as it stood before the trailing run of 'stable' frames
BeforeStableRun ==
    Replayed(SubSeq(position_history, 1,
                    Len(position_history) - TrailingStable(position_history)), now)

\* C19: let a counter whose non-zero counter stands at c (2c half-frames)
\* receive k accepted frames in a row that are all raw 'stable'.  While
\* k < 2c current_direction is what it was; from k = 2c on both counters
\* are 0 and current_direction is 'stable' and stays so.  The log gains
\* exactly one entry, ('stable', the differential of the 2c-th frame), if
\* the direction was 'up' or 'down', and none otherwise.
C19_NoStuckDirection ==
    LET k     == TrailingStable(position_history)
        start == BeforeStableRun
        c2    == start.consecutive_up_frames + start.consecutive_down_frames
        freed == Len(position_history) - k + c2
    IN  /\ k < c2
            => /\ current_direction = start.current_direction
               /\ direction_history = start.direction_history
               /\ consecutive_up_frames + consecutive_down_frames = c2 - k
        /\ k >= c2
            => /\ current_direction = "stable"
               /\ consecutive_up_frames = 0 /\ consecutive_down_frames = 0
               /\ direction_history =
                      (IF start.current_direction \in {"up", "down"}
                       THEN Append(start.direction_history,
                                   <<"stable", now, position_history[freed]>>)
                       ELSE start.direction_history)

\* the sixth 'stable' frame in a row after 'up' was confirmed at 3 frames
\* brings the up counter to 0, releases the direction and logs 'stable'
C19_Witness ==
    /\ op = "analyze_pose"
    /\ TrailingStable(position_history) = 2 * 3
    /\ BeforeStableRun.current_direction = "up"
    /\ BeforeStableRun.consecutive_up_frames = 2 * 3
    /\ prev.current_direction = "up"
    /\ current_direction = "stable"
    /\ direction_history[Len(direction_history)][1] = "stable"

\* a log without its times, as (direction, differential) pairs
Untimed(dh) == [i \in 1..Len(dh) |-> <<dh[i][1], dh[i][3]>>]

\* the log entry of the last frame, without its time
FrameEntry == <<current_direction, WristShoulderDiff(keypoints)>>

\* C20: a classified frame appends an entry to the log exactly when the
\* direction confirmed on it differs from current_direction before it; the
\* entry holds the new direction and the frame's differential, it is the
\* only entry added, and current_direction is the new direction after the
\* same call.  (The log after the call is the appended log, or empty when
\* the call went on to count a repetition.)
C20_TransitionLogging ==
    (Classified /\ Len(prev.direction_history) < direction_history_maxlen)
        => LET d == detect_direction_change(prev, WristShoulderDiff(keypoints), now)
               before == Untimed(prev.direction_history)
           IN  /\ d.direction # prev.current_direction
                   => /\ Untimed(d.self.direction_history) = Append(before, FrameEntry)
                      /\ current_direction = d.direction
                      /\ current_direction # prev.current_direction
               /\ d.direction = prev.current_direction
                   => /\ d.self.direction_history = prev.direction_history
                      /\ current_direction = prev.current_direction
               /\ Untimed(direction_history) = Untimed(d.self.direction_history)
                      \/ (count = prev.count + 1 /\ direction_history = <<>>)
               /\ (current_direction # prev.current_direction /\ count = prev.count)
                   => /\ Untimed(direction_history) = Append(before, FrameEntry)
                      /\ direction_history[Len(direction_history)][2] <= now
                      /\ \A i \in 1..Len(prev.direction_history) :
                             direction_history[i] = prev.direction_history[i]
               /\ (current_direction = prev.current_direction /\ count = prev.count)
                   => direction_history = prev.direction_history

\* 'down' is confirmed directly after 'up' and logged behind it with the
\* differential of the frame
C20_Witness ==
    /\ Classified
    /\ prev.current_direction = "up"
    /\ current_direction = "down"
    /\ prev.direction_history # <<>>
    /\ Untimed(direction_history)
           = Append(Untimed(prev.direction_history), <<"down", Float(0)>>)

\* C21: adjacent entries of the log differ in direction, every logged
\* direction is up, down or stable, a non-empty log ends with
\* current_direction, and the log is empty while current_direction is 'up'
\* only from a frame that counted a repetition on: such a state is entered
\* by a counting frame and by nothing else.
C21_LogConsistency ==
    /\ \A i \in 1..(Len(direction_history) - 1) :
           direction_history[i][1] # direction_history[i + 1][1]
    /\ \A i \in DOMAIN direction_history :
           direction_history[i][1] \in {"up", "down", "stable"}
    /\ direction_history # <<>>
           => direction_history[Len(direction_history)][1] = current_direction
    /\ (direction_history = <<>> /\ current_direction = "up")
           => /\ count > 0
              /\ last_rep_time > 0
              /\ FrameProcessed
              /\ \/ count = prev.count + 1
                 \/ /\ count = prev.count
                    /\ prev.direction_history = <<>>
                    /\ prev.current_direction = "up"

\* the frame after a counted repetition: the log is still empty and the
\* direction still 'up'
C21_Witness ==
    /\ op = "analyze_pose"
    /\ Accepted
    /\ direction_history = <<>>
    /\ current_direction = "up"
    /\ count = 1 /\ prev.count = 1

\* a window of capacity n after e is appended: the oldest element leaves a
\* full window, the others keep their order
Shifted(w, e, n) ==
    IF Len(w) < n
    THEN [i \in 1..(Len(w) + 1) |-> IF i <= Len(w) THEN w[i] ELSE e]
    ELSE [i \in 1..n |-> IF i < n THEN w[i + 1] ELSE e]

C23_CountingStep ==
    /\ (/\ Accepted
        /\ now - prev.last_rep_time > rep_cooldown
        /\ EndsDownUp(ObservedLog)
        /\ EndRange(ObservedLog) > 30)
        => /\ count = prev.count + 1
           /\ last_rep_time = now
           /\ direction_history = <<>>
    /\ \A i \in DOMAIN direction_history : direction_history[i][2] >= last_rep_time
    /\ (Accepted /\ count = prev.count + 1)
        => /\ EndsDownUp(ObservedLog)
           /\ \E i \in DOMAIN prev.direction_history :
                  /\ prev.direction_history[i][1] = "down"
                  /\ prev.direction_history[i][2] >= prev.last_rep_time

\* the second repetition is counted
C23_Witness ==
    /\ Accepted
    /\ prev.count = 1 /\ count = 2
    /\ last_rep_time = now
    /\ direction_history = <<>>

\* a (down, up) pair of range above 30 ended the log before the last frame
PairPending ==
    /\ EndsDownUp(Untimed(prev.direction_history))
    /\ Abs(prev.direction_history[Len(prev.direction_history)][3].val
             - prev.direction_history[Len(prev.direction_history) - 1][3].val) > 30

\* C24: a qualifying (down, up) pair is kept when its 'up' is logged while
\* the cooldown runs, and stays at the end of the log through every
\* accepted frame that logs no transition while the cooldown runs; the first such frame processed after the cooldown has elapsed
\* counts it, although the direction does not change on that frame; a frame
\* that logs another transition behind the pair does not count, and the
\* pair is no longer the end of the log.
C24_DeferredCount ==
    /\ (/\ Accepted
        /\ EndsDownUp(ObservedLog) /\ EndRange(ObservedLog) > 30
        /\ now - prev.last_rep_time <= rep_cooldown)
        => /\ count = prev.count
           /\ Len(direction_history) = Len(ObservedLog)
           /\ EndsDownUp(Untimed(direction_history))
    /\ (Accepted /\ PairPending)
        => /\ (/\ current_direction = prev.current_direction
               /\ now - prev.last_rep_time <= rep_cooldown)
                  => /\ count = prev.count
                     /\ direction_history = prev.direction_history
           /\ (/\ current_direction = prev.current_direction
               /\ now - prev.last_rep_time > rep_cooldown)
                  => /\ count = prev.count + 1
                     /\ last_rep_time = now
                     /\ direction_history = <<>>
           /\ current_direction # prev.current_direction
                  => /\ count = prev.count
                     /\ Len(direction_history) = Len(prev.direction_history) + 1
                     /\ ~EndsDownUp(Untimed(direction_history))

\* the pair was logged during the cooldown; this frame, the first after the
\* cooldown, counts it without a change of direction
C24_Witness ==
    /\ Accepted /\ PairPending
    /\ current_direction = prev.current_direction
    /\ prev.count = 1 /\ count = 2
    /\ prev.direction_history[Len(prev.direction_history)][2] - prev.last_rep_time
           <= rep_cooldown

\* the frames, numbered from the first sample of the signal h, on which a
\* new counter fed h confirms 'down' coming from another direction
DownConfirmations(h) ==
    {i \in 1..Len(h) :
        /\ Replayed(SubSeq(h, 1, i), Epoch).current_direction = "down"
        /\ Replayed(SubSeq(h, 1, i - 1), Epoch).current_direction # "down"}

\* The samples of the cycle closed by the last frame: those from the frame
\* on which its 'down' was confirmed to the last frame, on which its 'up'
\* was confirmed.
CycleSamples ==
    LET downs == DownConfirmations(position_history)
        first == CHOOSE i \in downs : \A j \in downs : j <= i
    IN  {position_history[i].val : i \in first..Len(position_history)}

\* highest minus lowest sample of the cycle
CycleSpan ==
    LET hi == CHOOSE x \in CycleSamples : \A y \in CycleSamples : y <= x
        lo == CHOOSE x \in CycleSamples : \A y \in CycleSamples : x <= y
    IN  hi - lo

\* the last frame confirmed the 'up' of a (down, up) pair
CycleClosed ==
    /\ Accepted
    /\ current_direction = "up" /\ prev.current_direction # "up"
    /\ EndsDownUp(ObservedLog)

\* C25: a frame that confirms the 'up' of a down/up cycle whose samples
\* span more than min_movement_range between the lowest and the highest,
\* processed with the cooldown elapsed, increments count.  The code does
\* not do this: it compares the two differentials logged with the
\* transitions.
C25_SpanCounts ==
    (/\ CycleClosed
     /\ CycleSpan > min_movement_range
     /\ now - prev.last_rep_time > rep_cooldown)
        => count = prev.count + 1

\* the labels analyze_pose returns for a frame it does not classify
RejectionLabels == {"no_person", "low_confidence", "error"}

\* the display label of a confirmed direction
LabelOf(direction) ==
    CASE direction = "up" -> "pulling_up"
      [] direction = "down" -> "lowering_down"
      [] OTHER -> "stable"

\* C26: on every accepted frame the returned and the stored position are
\* the label of the confirmed direction (up -> pulling_up, down ->
\* lowering_down, anything else -> stable), also on a frame that counts a
\* repetition; a frame answered no_person, low_confidence or error leaves
\* the stored position alone, which therefore only ever holds neutral,
\* pulling_up, lowering_down or stable.
C26_DisplayPosition ==
    /\ position \in {"neutral", "pulling_up", "lowering_down", "stable"}
    /\ FrameProcessed
        => IF result[2] \in RejectionLabels
           THEN position = prev.position
           ELSE /\ result[2] = LabelOf(current_direction)
                /\ position = result[2]
    /\ (FrameProcessed /\ count = prev.count + 1)
        => /\ current_direction = "up"
           /\ result = <<count, "pulling_up">>
           /\ position = "pulling_up"
    /\ (FrameProcessed /\ position = "neutral") => prev.position = "neutral"

\* a frame without keypoints is answered no_person right after the frame
\* that counted a repetition, and the stored position is still pulling_up
C26_Witness ==
    /\ op = "analyze_pose"
    /\ result = <<1, "no_person">>
    /\ prev.count = 1 /\ prev.direction_history = <<>>
    /\ position = "pulling_up"

\* C27: reset() leaves a counter field for field as __init__ creates it, so
\* a session restarted by reset() and a session restarted by replacing its
\* counter with a new FixedPullUpCounter (POST /reset_session) hold the same
\* fields right after the restart and after every frame served since; the
\* answer to a frame being computed from the fields and the frame, the two
\* sessions answer every frame alike.
C27_ResetIsFresh ==
    /\ instances[1] = Self
    /\ op = "reset_session" => instances[1] = NewCounter /\ reset(prev) = NewCounter
    /\ FrameProcessed => analyze_frame(prev, keypoints, now).ret = result

\* a session that has counted a repetition and served 12 frames, 2 of them
\* without a person, is restarted
C27_Witness ==
    /\ op = "reset_session"
    /\ prev.count = 1
    /\ prev.position = "pulling_up"
    /\ prev.frame_count = 12
    /\ Len(prev.position_history) = 10
    /\ instances[1].frame_count = 0

\* C28: the first down/up pattern of sufficient range logged since the
\* counter was constructed or reset (count is still 0) is counted on the
\* frame that confirms its 'up', whatever the time of the repetitions
\* counted before the reset: reset() puts last_rep_time back to 0 and every
\* clock reading exceeds rep_cooldown.
C28_CooldownForgotten ==
    (/\ Accepted
     /\ prev.count = 0
     /\ current_direction = "up" /\ prev.current_direction # "up"
     /\ EndsDownUp(ObservedLog)
     /\ EndRange(ObservedLog) > min_movement_range)
        => /\ prev.last_rep_time = 0
           /\ count = 1
           /\ last_rep_time = now

\* a repetition is counted after a reset less than rep_cooldown after the
\* repetition counted before the reset: the control counter, never reset,
\* logged the same pair and does not count it
C28_Witness ==
    /\ op = "analyze_pose"
    /\ prev.count = 0 /\ count = 1
    /\ instances[1].count = 1
    /\ instances[1].last_rep_time > 0
    /\ now - instances[1].last_rep_time < rep_cooldown
    /\ EndsDownUp(Untimed(instances[1].direction_history))

\* C29: served the same accepted differentials at the same times, the
\* analyzer of the script and the backend counter hold the same count,
\* current_direction, consecutive counters, position_history and
\* direction_history (and last_rep_time) after every frame, and
\* check_for_rep returns True exactly on the frames on which the backend
\* count increments.
C29_AnalyzerMatches ==
    /\ instances[1].count = count
    /\ instances[1].current_direction = current_direction
    /\ instances[1].consecutive_up_frames = consecutive_up_frames
    /\ instances[1].consecutive_down_frames = consecutive_down_frames
    /\ instances[1].position_history = position_history
    /\ instances[1].direction_history = direction_history
    /\ instances[1].last_rep_time = last_rep_time
    /\ FrameProcessed => (instances[2].rep_completed <=> count = prev.count + 1)

\* the second repetition, held back by the cooldown, is counted by both on
\* a frame without a transition
C29_Witness ==
    /\ op = "analyze_pose"
    /\ count = 2 /\ prev.count = 1
    /\ current_direction = prev.current_direction
    /\ instances[2].rep_completed
    /\ instances[1].count = 2
    /\ Len(instances[1].all_measurements) = MaxFramesAnalyzer

\* the message of the list that a returned text ends with, given its count
TextOf(n, message) == "Rep " \o ToString(n) \o " - " \o message

\* C30: get_motivation_text(rep_count) returns "Rep <rep_count> - " followed
\* by message (rep_count - 1) mod 20 of the list, counting from 0: a second
\* call with the same rep_count returns the same text, the 20 rep counts
\* starting at any rep_count select 20 different messages, hence each
\* message once, and rep_count 0 selects the last message.
C30_MotivationText ==
    op = "get_motivation_text"
        => LET n == requests[1].rep_count
               returned == requests[1].returned
           IN  /\ \A i \in DOMAIN returned :
                      returned[i] = TextOf(n, motivational_messages[((n - 1) % 20) + 1])
               /\ Cardinality({selected_message(k) : k \in n..(n + 19)}) = 20
               /\ \A m \in DOMAIN motivational_messages :
                      \E k \in n..(n + 19) :
                          get_motivation_text(k) = TextOf(k, motivational_messages[m])
               /\ n = 0 => returned[1] = "Rep 0 - Beast mode is activated!"
               /\ n = 1 => returned[1] = "Rep 1 - Keep pushing, you're strong!"

\* get_motivation_text(0) has been called twice
C30_Witness ==
    /\ op = "get_motivation_text"
    /\ requests[1].rep_count = 0
    /\ Len(requests[1].returned) = 2
    /\ requests[1].returned[2] = "Rep 0 - Beast mode is activated!"

====
